---- MODULE Spec2Model ----
(***************************************************************************)
(* A model of tidal-tui's playback core: the Player object of              *)
(* src/player.rs (queue, history, current track, position, playing flag,   *)
(* volume, the rodio sink and the souvlaki media controls it owns), the    *)
(* background thread started by Player::start_polling_thread, and the      *)
(* per-track URL cache of src/rtidalapi/track.rs.                          *)
(*                                                                         *)
(* Durations are counted in half seconds, gains in 1/10000 of full scale.  *)
(* Calls into external crates (rodio, souvlaki, stream_download, the       *)
(* Python resolver) that return a Result fail when the environment says   *)
(* so: `fail` names the external call that returns Err during one method   *)
(* invocation, if any (a method stops at its first Err).                   *)
(***************************************************************************)
EXTENDS Integers, Sequences, FiniteSets, TLC

\* ------------------------------------------------------------------ bounds
NumTracks == 2
MaxQueue == 3
MaxPos == 2
VolumeArgMax == 120
MaxCalls == 3
NumThreads == 2

\* --------------------------------------------------------------- constants
\* Player::MAX_VOLUME = 0.15, in 1/10000 of full scale.
MAX_VOLUME == 1500
\* Player::new: volume: 50.
INITIAL_VOLUME == 50
\* App::volume_down.
DECREASE_AMOUNT == 5
\* App::volume_up.
INCREASE_AMOUNT == 5
\* The variants of AudioQuality: Low96, Low320, High.
NumQualities == 3

None == 0
Tracks == 1..NumTracks
Positions == 0..MaxPos
TrackLists == UNION {[1..n -> Tracks] : n \in 0..MaxQueue}
Qualities == 1..NumQualities
Threads == 1..NumThreads

VARIABLES
    player,      \* the Player struct behind Arc<Mutex<Player>>
    loop_pc,     \* the background thread: "poll", "event" or "dead"
    poisoned,    \* the player mutex is poisoned
    last,        \* history: whether the step just taken was shuffle_queue, and what it found
    script,      \* history: the set_queue / play / next run in progress
    snapshot,    \* history: the queue state a successful skip by next() started from
    url,                \* Track::url, per track
    url_audio_quality,  \* Track::url_audio_quality, per track
    audio_quality,      \* the session's audio quality
    url_last,           \* history: the last get_url call
    url_run,            \* history: the get_url calls made on one track since its URL was cached
    cell,        \* Track::attributes, Track::album, Track::artist: the OnceCell of each track
    inflight,    \* per cell, the initializers (fetches) that are running
    fetched,     \* history: per cell, the fetches that succeeded
    slot_last,   \* history: the last call of get_attribtues / get_album / get_artist that returned
    url_caller,  \* the threads that call Track::get_url concurrently
    gil,         \* the thread that holds the Python GIL
    lock,        \* the thread that holds the player mutex
    running,     \* per thread, the player operation it is executing
    issued,      \* history: the transport commands of the user, in the order issued
    applied,     \* history: the commands applied to the player, in the order applied
    ui_cell,     \* the OnceCells of the tracks of App::collection_tracks
    locker       \* per thread, the lock operations of the function it runs, and how far it is

vars == <<player, loop_pc, poisoned, last, script, snapshot, url, url_audio_quality, audio_quality, url_last, url_run,
          cell, inflight, fetched, slot_last, url_caller, gil, lock, running,
          issued, applied, ui_cell, locker>>
playerVars == <<player, loop_pc, poisoned, last, script, snapshot>>
trackVars == <<url, url_audio_quality, audio_quality, url_last, url_run>>
slotVars == <<cell, inflight, fetched, slot_last>>
callVars == <<url_caller, gil>>
lockVars == <<lock, running>>
appVars == <<issued, applied, ui_cell, locker>>

\* ------------------------------------------------------------ environment
\* The external call that fails during one method invocation:
\*   Resolve   Track::get_url / get_attribtues / get_album / get_artist / get_duration
\*   Metadata  MediaControls::set_metadata
\*   Controls  MediaControls::set_playback
\*   Stream    StreamDownload::new_http / Decoder::new
\*   Seek      Sink::try_seek
Fails == {"None", "Resolve", "Metadata", "Controls", "Stream", "Seek"}

\* The failures a method can meet: the external calls it makes.
FailsOf(op) ==
    CASE op = "pause" -> {"None", "Controls"}
      [] op = "set_position" -> {"None", "Seek"}
      [] op = "play" -> Fails \ {"Seek"}
      [] op \in {"next", "prev", "poll"} -> Fails
      [] OTHER -> {"None"}

Ok(p) == [p |-> p, res |-> "Ok"]
Err(p) == [p |-> p, res |-> "Err"]

\* ------------------------------------------------------------------ Player
\* Player::new.
NewPlayer ==
    [current_track |-> None,
     queue |-> <<>>,
     queue_history |-> <<>>,
     position |-> 0,
     is_playing |-> FALSE,
     volume |-> INITIAL_VOLUME,
     sink_source |-> None,
     sink_paused |-> FALSE,
     sink_pos |-> 0,
     sink_volume |-> MAX_VOLUME \div 2,
     ctl_metadata |-> None,
     ctl_playback |-> "Stopped"]

\* rodio Sink::clear: drops every source and pauses the sink.
sink_clear(p) == [p EXCEPT !.sink_source = None, !.sink_paused = TRUE, !.sink_pos = 0]

\* Player::get_current_track.
get_current_track(p) == p.current_track

\* Player::get_position.
get_position(p) == p.position

\* Player::is_playing.
is_playing(p) == p.is_playing

\* Player::get_volume.
get_volume(p) == p.volume

\* set_volume that stores its argument as it is.
set_volume_unclamped(p, volume) ==
    [p EXCEPT !.volume = volume,
              !.sink_volume = (MAX_VOLUME * volume) \div 100]

\* Player::set_volume.
set_volume(p, volume) ==
    [p EXCEPT !.volume = IF volume > 100 THEN 100 ELSE volume,
              !.sink_volume = (MAX_VOLUME * volume) \div 100]

\* set_queue without queue_history.clear().
set_queue_keep_history(p, tracks) ==
    sink_clear([p EXCEPT !.current_track = None, !.queue = tracks])

\* Player::set_queue.
set_queue(p, tracks) ==
    sink_clear([p EXCEPT !.current_track = None,
                         !.queue = tracks,
                         !.queue_history = <<>>])

IsPerm(f, n) == \A i, j \in 1..n : f[i] = f[j] => i = j
Perms(n) == {f \in [1..n -> 1..n] : IsPerm(f, n)}

\* shuffle_queue without the append of the history: the history is dropped.
shuffle_queue_drop_history(p, sigma) ==
    [p EXCEPT !.queue = [i \in 1..Len(p.queue) |-> p.queue[((sigma[i] - 1) % Len(p.queue)) + 1]],
              !.queue_history = <<>>]

\* Player::shuffle_queue; sigma is the permutation the random generator draws.
shuffle_queue(p, sigma) ==
    LET all == p.queue \o p.queue_history
    IN [p EXCEPT !.queue = [i \in 1..Len(all) |-> all[sigma[i]]],
                 !.queue_history = <<>>]

\* play_new_track that leaves the stored position as it is.
play_new_track_keeps_position(p, track, fail) ==
    IF fail = "Resolve" THEN Err(p)
    ELSE LET p1 == sink_clear(p) IN
    IF fail = "Metadata" THEN Err(p1)
    ELSE LET p2 == [p1 EXCEPT !.ctl_metadata = track] IN
    IF fail = "Controls" THEN Err(p2)
    ELSE LET p3 == [p2 EXCEPT !.ctl_playback = "Playing"] IN
    IF fail = "Stream" THEN Err(p3)
    ELSE Ok([p3 EXCEPT !.sink_source = track,
                       !.sink_paused = FALSE,
                       !.current_track = track,
                       !.is_playing = TRUE])

\* Player::play_new_track. The prefetch of the new queue head discards its
\* results and leaves the player as it is.
play_new_track(p, track, fail) ==
    IF fail = "Resolve" THEN Err(p)
    ELSE LET p1 == sink_clear(p) IN
    IF fail = "Metadata" THEN Err(p1)
    ELSE LET p2 == [p1 EXCEPT !.ctl_metadata = track] IN
    IF fail = "Controls" THEN Err(p2)
    ELSE LET p3 == [p2 EXCEPT !.ctl_playback = "Playing"] IN
    IF fail = "Stream" THEN Err(p3)
    ELSE Ok([p3 EXCEPT !.sink_source = track,
                       !.sink_paused = FALSE,
                       !.current_track = track,
                       !.is_playing = TRUE,
                       !.position = 0])

\* play with pop_back in place of pop_front.
play_pop_back(p, fail) ==
    IF p.current_track # None /\ ~p.is_playing
    THEN LET p1 == [p EXCEPT !.is_playing = TRUE] IN
         IF fail = "Controls" THEN Err(p1)
         ELSE Ok([p1 EXCEPT !.ctl_playback = "Playing", !.sink_paused = FALSE])
    ELSE IF p.current_track = None /\ Len(p.queue) > 0
    THEN play_new_track([p EXCEPT !.queue = SubSeq(@, 1, Len(@) - 1)],
                        p.queue[Len(p.queue)], fail)
    ELSE Ok(p)

\* play that starts the current track over when it resumes.
play_rewinds(p, fail) ==
    IF p.current_track # None /\ ~p.is_playing
    THEN LET p1 == [p EXCEPT !.is_playing = TRUE, !.position = 0] IN
         IF fail = "Controls" THEN Err(p1)
         ELSE Ok([p1 EXCEPT !.ctl_playback = "Playing", !.sink_paused = FALSE])
    ELSE IF p.current_track = None /\ Len(p.queue) > 0
    THEN play_new_track([p EXCEPT !.queue = Tail(p.queue)], Head(p.queue), fail)
    ELSE Ok(p)

\* Player::play.
play(p, fail) ==
    IF p.current_track # None /\ ~p.is_playing
    THEN LET p1 == [p EXCEPT !.is_playing = TRUE] IN
         IF fail = "Controls" THEN Err(p1)
         ELSE Ok([p1 EXCEPT !.ctl_playback = "Playing", !.sink_paused = FALSE])
    ELSE IF p.current_track = None /\ Len(p.queue) > 0
    THEN play_new_track([p EXCEPT !.queue = Tail(p.queue)], Head(p.queue), fail)
    ELSE Ok(p)

\* Player::pause.
pause(p, fail) ==
    LET p1 == [p EXCEPT !.is_playing = FALSE] IN
    IF fail = "Controls" THEN Err(p1)
    ELSE Ok([p1 EXCEPT !.ctl_playback = "Paused", !.sink_paused = TRUE])

\* set_position without the test of the current track.
set_position_unguarded(p, position, fail) ==
    IF fail = "Seek" THEN Err(p)
    ELSE Ok([p EXCEPT !.sink_pos = IF p.sink_source # None THEN position ELSE @,
                      !.position = position])

\* Player::set_position; rodio's try_seek seeks only a sink that holds a source.
set_position(p, position, fail) ==
    IF p.current_track # None
    THEN IF fail = "Seek" THEN Err(p)
         ELSE Ok([p EXCEPT !.sink_pos = IF p.sink_source # None THEN position ELSE @,
                           !.position = position])
    ELSE Ok(p)

\* The "no next tracks" / "no previous tracks" branch of next and prev, after
\* the current track is put back.
restart_current(p, fail) ==
    LET r == set_position(p, 0, fail) IN
    IF r.res = "Err" THEN r
    ELSE IF fail = "Controls" THEN Err(r.p)
    ELSE Ok([r.p EXCEPT !.ctl_playback = "Paused"])

\* next with push_front in place of push_back on the history.
next_push_front(p, fail) ==
    IF p.current_track # None
    THEN IF Len(p.queue) > 0
         THEN play_new_track([p EXCEPT !.current_track = None,
                                       !.queue = Tail(p.queue),
                                       !.queue_history = <<p.current_track>> \o @],
                             Head(p.queue), fail)
         ELSE restart_current(p, fail)
    ELSE Ok(p)

\* next that puts the player back as it was when the load fails.
next_rollback(p, fail) ==
    IF p.current_track # None
    THEN IF Len(p.queue) > 0
         THEN LET r == play_new_track([p EXCEPT !.current_track = None,
                                                !.queue = Tail(p.queue),
                                                !.queue_history = Append(@, p.current_track)],
                                      Head(p.queue), fail)
              IN IF r.res = "Err" THEN Err(p) ELSE r
         ELSE restart_current(p, fail)
    ELSE Ok(p)

\* next that takes the tail of the queue.
next_pop_back(p, fail) ==
    IF p.current_track # None
    THEN IF Len(p.queue) > 0
         THEN play_new_track([p EXCEPT !.current_track = None,
                                       !.queue = SubSeq(@, 1, Len(@) - 1),
                                       !.queue_history = Append(@, p.current_track)],
                             p.queue[Len(p.queue)], fail)
         ELSE restart_current(p, fail)
    ELSE Ok(p)

\* next that starts the queue when there is no current track.
next_starts_queue(p, fail) ==
    IF p.current_track # None
    THEN IF Len(p.queue) > 0
         THEN play_new_track([p EXCEPT !.current_track = None,
                                       !.queue = Tail(p.queue),
                                       !.queue_history = Append(@, p.current_track)],
                             Head(p.queue), fail)
         ELSE restart_current(p, fail)
    ELSE IF Len(p.queue) > 0
    THEN play_new_track([p EXCEPT !.queue = Tail(p.queue)], Head(p.queue), fail)
    ELSE Ok(p)

\* Player::next.
next(p, fail) ==
    IF p.current_track # None
    THEN IF Len(p.queue) > 0
         THEN play_new_track([p EXCEPT !.current_track = None,
                                       !.queue = Tail(p.queue),
                                       !.queue_history = Append(@, p.current_track)],
                             Head(p.queue), fail)
         ELSE restart_current(p, fail)
    ELSE Ok(p)

\* prev that leaves the tail of the history where it is.
prev_keeps_tail(p, fail) ==
    IF p.current_track # None
    THEN IF Len(p.queue_history) > 0
         THEN play_new_track([p EXCEPT !.current_track = None,
                                       !.queue = <<p.current_track>> \o @],
                             p.queue_history[Len(p.queue_history)], fail)
         ELSE restart_current(p, fail)
    ELSE Ok(p)

\* prev with push_back in place of push_front on the queue.
prev_push_back(p, fail) ==
    IF p.current_track # None
    THEN IF Len(p.queue_history) > 0
         THEN play_new_track([p EXCEPT !.current_track = None,
                                       !.queue = Append(@, p.current_track),
                                       !.queue_history = SubSeq(@, 1, Len(@) - 1)],
                             p.queue_history[Len(p.queue_history)], fail)
         ELSE restart_current(p, fail)
    ELSE Ok(p)

\* Player::prev.
prev(p, fail) ==
    IF p.current_track # None
    THEN IF Len(p.queue_history) > 0
         THEN play_new_track([p EXCEPT !.current_track = None,
                                       !.queue = <<p.current_track>> \o @,
                                       !.queue_history = SubSeq(@, 1, Len(@) - 1)],
                             p.queue_history[Len(p.queue_history)], fail)
         ELSE restart_current(p, fail)
    ELSE Ok(p)

\* ------------------------------------------------------- history variables
NoScript == [tracks |-> <<>>, step |-> -1]

\* The run set_queue(tracks); play(); next(); next(); ... with no other
\* method invoked in between: step counts the calls after set_queue.
ScriptAfter(op, res, tracks) ==
    IF op = "set_queue" THEN [tracks |-> tracks, step |-> 0]
    ELSE IF op = "play" /\ res = "Ok" /\ script.step = 0 THEN [script EXCEPT !.step = 1]
    ELSE IF op = "next" /\ res = "Ok" /\ script.step \in 1..MaxQueue
    THEN [script EXCEPT !.step = @ + 1]
    ELSE NoScript

NoSnapshot == [phase |-> "none", current_track |-> None, queue |-> <<>>, queue_history |-> <<>>]

\* "skipped" right after a next() that found a current track and a non-empty
\* queue and whose load succeeded, holding the queue state that next() found;
\* "returned" right after a successful prev() that follows it directly.
SnapshotAfter(op, res) ==
    IF op = "next" /\ res = "Ok" /\ player.current_track # None /\ Len(player.queue) > 0
    THEN [phase |-> "skipped", current_track |-> player.current_track,
          queue |-> player.queue, queue_history |-> player.queue_history]
    ELSE IF op = "prev" /\ res = "Ok" /\ snapshot.phase = "skipped"
    THEN [snapshot EXCEPT !.phase = "returned"]
    ELSE NoSnapshot

NoLast == [op |-> "other", history |-> 0, current |-> FALSE]

\* For shuffle_queue: the length of the history and the presence of a current
\* track as the call found them. For a play() that finds a paused current
\* track: that it did.
LastAfter(op) ==
    IF op = "shuffle_queue"
    THEN [op |-> op, history |-> Len(player.queue_history), current |-> player.current_track # None]
    ELSE IF op = "play" /\ player.current_track # None /\ ~player.is_playing
    THEN [op |-> "resume", history |-> 0, current |-> TRUE]
    ELSE IF op = "set_position" /\ player.current_track # None
    THEN [op |-> "seek", history |-> 0, current |-> TRUE]
    ELSE NoLast

\* A Player method invoked on the locked player, with result r.
Invoke(op, r, tracks) ==
    /\ player' = r.p
    /\ last' = LastAfter(op)
    /\ script' = ScriptAfter(op, r.res, tracks)
    /\ snapshot' = SnapshotAfter(op, r.res)

\* A thread that unwraps an Err while it holds the player lock panics and
\* poisons the mutex.
PanicsOn(res, unwraps) == res = "Err" /\ unwraps

\* ------------------------------------------------------------ the client
\* Calls of Player's public methods on the locked player, as the UI thread
\* and the tasks it spawns make them (src/lib.rs), in any order the public
\* interface allows. A poisoned lock is never entered.

\* set_queue as App::play_all and App::shuffle_all call it.
SetQueue ==
    /\ ~poisoned
    /\ \E tracks \in TrackLists :
        Invoke("set_queue", Ok(set_queue(player, tracks)), tracks)
    /\ UNCHANGED <<loop_pc, poisoned, trackVars, slotVars, callVars, lockVars, appVars>>

\* shuffle_queue as App::shuffle_all calls it.
ShuffleQueue ==
    /\ ~poisoned
    /\ \E sigma \in Perms(Len(player.queue) + Len(player.queue_history)) :
        Invoke("shuffle_queue", Ok(shuffle_queue(player, sigma)), <<>>)
    /\ UNCHANGED <<loop_pc, poisoned, trackVars, slotVars, callVars, lockVars, appVars>>

\* App::toggle_play_pause propagates the error; the task of App::play_all
\* and App::shuffle_all unwraps it.
Play ==
    /\ ~poisoned
    /\ \E fail \in FailsOf("play") :
        LET r == play(player, fail) IN
        /\ Invoke("play", r, <<>>)
        /\ \E unwraps \in (IF r.res = "Err" THEN BOOLEAN ELSE {FALSE}) :
            poisoned' = PanicsOn(r.res, unwraps)
    /\ UNCHANGED <<loop_pc, trackVars, slotVars, callVars, lockVars, appVars>>

\* App::toggle_play_pause.
Pause ==
    /\ ~poisoned
    /\ \E fail \in FailsOf("pause") :
        Invoke("pause", pause(player, fail), <<>>)
    /\ UNCHANGED <<loop_pc, poisoned, trackVars, slotVars, callVars, lockVars, appVars>>

\* The task of App::next_track.
NextTrack ==
    /\ ~poisoned
    /\ \E fail \in FailsOf("next") :
        LET r == next(player, fail) IN
        /\ Invoke("next", r, <<>>)
        /\ poisoned' = PanicsOn(r.res, TRUE)
    /\ UNCHANGED <<loop_pc, trackVars, slotVars, callVars, lockVars, appVars>>

\* The task of App::previous_track.
PreviousTrack ==
    /\ ~poisoned
    /\ \E fail \in FailsOf("prev") :
        LET r == prev(player, fail) IN
        /\ Invoke("prev", r, <<>>)
        /\ poisoned' = PanicsOn(r.res, TRUE)
    /\ UNCHANGED <<loop_pc, trackVars, slotVars, callVars, lockVars, appVars>>

\* ------------------------------------------------------ the audio device
\* The sink plays: its position advances; a source that reaches its end
\* (MaxPos) is dropped and the position stays where it is.
SinkAdvance ==
    /\ player.sink_source # None
    /\ ~player.sink_paused
    /\ player.sink_pos < MaxPos
    /\ player' = [player EXCEPT !.sink_pos = @ + 1,
                                !.sink_source = IF player.sink_pos + 1 = MaxPos THEN None ELSE @]
    /\ last' = NoLast
    /\ UNCHANGED <<loop_pc, poisoned, script, snapshot, trackVars, slotVars, callVars, lockVars, appVars>>

\* ------------------------------------------------- the background thread
\* Duration::as_secs_f64().round() of a position in half seconds.
RoundSecs(position) == (position + 1) \div 2

\* poll_position without the test that the position is not zero.
poll_position_any_standstill(p, fail) ==
    IF p.is_playing
    THEN LET position == p.sink_pos IN
         IF position = p.position
         THEN [op |-> "next", r |-> next(p, fail), rerender |-> next(p, fail).res = "Ok"]
         ELSE IF RoundSecs(position) # RoundSecs(p.position)
         THEN IF fail = "Controls"
              THEN [op |-> "poll_update", r |-> Err(p), rerender |-> TRUE]
              ELSE [op |-> "poll_update",
                    r |-> Ok([p EXCEPT !.ctl_playback = "Playing", !.position = position]),
                    rerender |-> TRUE]
         ELSE [op |-> "poll_update", r |-> Ok([p EXCEPT !.position = position]),
               rerender |-> FALSE]
    ELSE [op |-> "poll_idle", r |-> Ok(p), rerender |-> FALSE]

\* poll_position that stores the position only when it pushes it.
poll_position_throttled(p, fail) ==
    IF p.is_playing
    THEN LET position == p.sink_pos IN
         IF position # 0 /\ position = p.position
         THEN [op |-> "next", r |-> next(p, fail), rerender |-> next(p, fail).res = "Ok"]
         ELSE IF RoundSecs(position) # RoundSecs(p.position)
         THEN IF fail = "Controls"
              THEN [op |-> "poll_update", r |-> Err(p), rerender |-> TRUE]
              ELSE [op |-> "poll_update",
                    r |-> Ok([p EXCEPT !.ctl_playback = "Playing", !.position = position]),
                    rerender |-> TRUE]
         ELSE [op |-> "poll_update", r |-> Ok(p), rerender |-> FALSE]
    ELSE [op |-> "poll_idle", r |-> Ok(p), rerender |-> FALSE]

\* The position poll of one loop iteration, under the lock; rerender says
\* whether AppEvent::ReRender is sent.
poll_position(p, fail) ==
    IF p.is_playing
    THEN LET position == p.sink_pos IN
         IF position # 0 /\ position = p.position
         THEN [op |-> "next", r |-> next(p, fail), rerender |-> next(p, fail).res = "Ok"]
         ELSE IF RoundSecs(position) # RoundSecs(p.position)
         THEN IF fail = "Controls"
              THEN [op |-> "poll_update", r |-> Err(p), rerender |-> TRUE]
              ELSE [op |-> "poll_update",
                    r |-> Ok([p EXCEPT !.ctl_playback = "Playing", !.position = position]),
                    rerender |-> TRUE]
         ELSE [op |-> "poll_update", r |-> Ok([p EXCEPT !.position = position]),
               rerender |-> FALSE]
    ELSE [op |-> "poll_idle", r |-> Ok(p), rerender |-> FALSE]

\* What the loop does next: every Err is unwrapped, and the panic ends the thread.
LoopAfter(res, then) == IF res = "Err" THEN "dead" ELSE then

\* A lock() that takes the guard out of the PoisonError and goes on.
LockRecovers ==
    /\ loop_pc' = IF loop_pc = "poll" THEN "event" ELSE "poll"
    /\ UNCHANGED <<player, poisoned, script, snapshot>>

\* player.lock().unwrap() on a poisoned mutex.
LockPanics ==
    /\ loop_pc' = "dead"
    /\ UNCHANGED <<player, poisoned, script, snapshot>>

\* First half of a loop iteration.
PollPosition ==
    /\ loop_pc = "poll"
    /\ IF poisoned
       THEN LockPanics /\ last' = NoLast
       ELSE \E fail \in FailsOf("poll") :
            LET d == poll_position(player, fail) IN
            /\ Invoke(d.op, d.r, <<>>)
            /\ poisoned' = PanicsOn(d.r.res, TRUE)
            /\ loop_pc' = LoopAfter(d.r.res, "event")
    /\ UNCHANGED <<trackVars, slotVars, callVars, lockVars, appVars>>

EventKinds == {"Pause", "Play", "Next", "Previous", "SetPosition", "Other"}
Events == {[kind |-> k, pos |-> 0] : k \in EventKinds \ {"SetPosition"}}
          \cup {[kind |-> "SetPosition", pos |-> q] : q \in Positions}

\* The Player method a MediaControlEvent is matched to.
EventOp(event) ==
    CASE event.kind = "Pause" -> "pause"
      [] event.kind = "Play" -> "play"
      [] event.kind = "Next" -> "next"
      [] event.kind = "Previous" -> "prev"
      [] event.kind = "SetPosition" -> "set_position"
      [] OTHER -> "other"

\* The match on the received MediaControlEvent.
dispatch(p, event, fail) ==
    CASE event.kind = "Pause" -> [op |-> "pause", r |-> pause(p, fail)]
      [] event.kind = "Play" -> [op |-> "play", r |-> play(p, fail)]
      [] event.kind = "Next" -> [op |-> "next", r |-> next(p, fail)]
      [] event.kind = "Previous" -> [op |-> "prev", r |-> prev(p, fail)]
      [] event.kind = "SetPosition" -> [op |-> "set_position", r |-> set_position(p, event.pos, fail)]
      [] OTHER -> [op |-> "other", r |-> Ok(p)]

\* Second half of a loop iteration, the channel empty: try_recv fails.
NoEvent ==
    /\ loop_pc = "event"
    /\ loop_pc' = "poll"
    /\ last' = NoLast
    /\ UNCHANGED <<player, poisoned, script, snapshot, trackVars, slotVars, callVars, lockVars, appVars>>

\* Second half of a loop iteration, an event in the channel.
DispatchEvent ==
    /\ loop_pc = "event"
    /\ IF poisoned
       THEN LockPanics /\ last' = NoLast
       ELSE \E event \in Events :
            \E fail \in FailsOf(EventOp(event)) :
            LET d == dispatch(player, event, fail) IN
            /\ Invoke(d.op, d.r, <<>>)
            /\ poisoned' = PanicsOn(d.r.res, TRUE)
            /\ loop_pc' = LoopAfter(d.r.res, "poll")
    /\ UNCHANGED <<trackVars, slotVars, callVars, lockVars, appVars>>

\* ------------------------------------------------------------ the volume
\* u32::saturating_sub.
saturating_sub(a, b) == IF a < b THEN 0 ELSE a - b

\* u32::saturating_add; volumes stay far below u32::MAX.
saturating_add(a, b) == a + b

\* App::volume_down.
volume_down(p) == set_volume(p, saturating_sub(get_volume(p), DECREASE_AMOUNT))

\* App::volume_up.
volume_up(p) == set_volume(p, saturating_add(get_volume(p), INCREASE_AMOUNT))

\* Player::set_volume called with any argument.
SetVolume ==
    /\ ~poisoned
    /\ \E volume \in 0..VolumeArgMax : player' = set_volume(player, volume)
    /\ UNCHANGED <<loop_pc, poisoned, last, script, snapshot, trackVars, slotVars, callVars, lockVars, appVars>>

VolumeDown ==
    /\ ~poisoned
    /\ player' = volume_down(player)
    /\ UNCHANGED <<loop_pc, poisoned, last, script, snapshot, trackVars, slotVars, callVars, lockVars, appVars>>

VolumeUp ==
    /\ ~poisoned
    /\ player' = volume_up(player)
    /\ UNCHANGED <<loop_pc, poisoned, last, script, snapshot, trackVars, slotVars, callVars, lockVars, appVars>>

\* ------------------------------------------------------ the track's URL
\* Session::get_audio_quality: the quality last set on the session.
get_audio_quality == audio_quality

\* Session::set_audio_quality; the Python setattr may raise.
set_audio_quality(quality, ok) == IF ok THEN quality ELSE audio_quality

\* The URL the resolver issues for a track under a quality.
ResolvedUrl(quality) == quality

\* get_url that stores the quality only with the first URL.
get_url_keep_tag(cache, ok) ==
    IF cache.url = None
       \/ (cache.url_audio_quality # None /\ cache.url_audio_quality # get_audio_quality)
    THEN IF ok
         THEN [cache |-> [url |-> ResolvedUrl(get_audio_quality),
                          url_audio_quality |-> IF cache.url_audio_quality = None
                                                THEN get_audio_quality
                                                ELSE cache.url_audio_quality],
               resolved |-> TRUE, res |-> "Ok", ret |-> ResolvedUrl(get_audio_quality)]
         ELSE [cache |-> cache, resolved |-> TRUE, res |-> "Err", ret |-> None]
    ELSE [cache |-> cache, resolved |-> FALSE, res |-> "Ok", ret |-> cache.url]

\* get_url that forgets the cached URL when its resolution fails.
get_url_forgets(cache, ok) ==
    IF cache.url = None
       \/ (cache.url_audio_quality # None /\ cache.url_audio_quality # get_audio_quality)
    THEN IF ok
         THEN [cache |-> [url |-> ResolvedUrl(get_audio_quality),
                          url_audio_quality |-> get_audio_quality],
               resolved |-> TRUE, res |-> "Ok", ret |-> ResolvedUrl(get_audio_quality)]
         ELSE [cache |-> [url |-> None, url_audio_quality |-> None],
               resolved |-> TRUE, res |-> "Err", ret |-> None]
    ELSE [cache |-> cache, resolved |-> FALSE, res |-> "Ok", ret |-> cache.url]

\* Track::get_url on the cache [url, url_audio_quality] of one track; ok says
\* whether the Python resolver returns a URL.
get_url(cache, ok) ==
    IF cache.url = None
       \/ (cache.url_audio_quality # None /\ cache.url_audio_quality # get_audio_quality)
    THEN IF ok
         THEN [cache |-> [url |-> ResolvedUrl(get_audio_quality),
                          url_audio_quality |-> get_audio_quality],
               resolved |-> TRUE, res |-> "Ok", ret |-> ResolvedUrl(get_audio_quality)]
         ELSE [cache |-> cache, resolved |-> TRUE, res |-> "Err", ret |-> None]
    ELSE [cache |-> cache, resolved |-> FALSE, res |-> "Ok", ret |-> cache.url]

CacheOf(t) == [url |-> url[t], url_audio_quality |-> url_audio_quality[t]]

NoUrlLast == [track |-> None, hit |-> FALSE, resolved |-> FALSE, res |-> "Ok", ret |-> None]

NoRun == [track |-> None, qa |-> None, qb |-> None, calls |-> 0, resolutions |-> 0, failed |-> FALSE]

\* A run on one track: a get_url that returns a URL under quality qa, then
\* get_url calls under another quality qb (calls of them, resolutions of
\* which resolved, failed if one returned Err). Calls on other tracks and
\* changes of the session's quality do not end it; a call under a third
\* quality, or the call after MaxCalls, starts over.
RunAfter(t, r) ==
    LET fresh == IF r.res = "Ok"
                 THEN [NoRun EXCEPT !.track = t, !.qa = audio_quality]
                 ELSE NoRun
        count == [url_run EXCEPT !.calls = @ + 1,
                                 !.resolutions = @ + (IF r.resolved THEN 1 ELSE 0),
                                 !.failed = @ \/ r.res = "Err"]
    IN  IF url_run.track = None THEN fresh
        ELSE IF url_run.track # t THEN url_run
        ELSE IF url_run.qb = None /\ audio_quality = url_run.qa THEN url_run
        ELSE IF url_run.qb = None THEN [count EXCEPT !.qb = audio_quality]
        ELSE IF url_run.qb = audio_quality /\ url_run.calls < MaxCalls THEN count
        ELSE fresh

GetUrl ==
    \E t \in Tracks, ok \in BOOLEAN :
        LET r == get_url(CacheOf(t), ok) IN
        /\ url' = [url EXCEPT ![t] = r.cache.url]
        /\ url_audio_quality' = [url_audio_quality EXCEPT ![t] = r.cache.url_audio_quality]
        /\ url_last' = [track |-> t,
                        hit |-> url[t] # None /\ url_audio_quality[t] = audio_quality,
                        resolved |-> r.resolved, res |-> r.res, ret |-> r.ret]
        /\ url_run' = RunAfter(t, r)
        /\ UNCHANGED <<audio_quality, playerVars, slotVars, callVars, lockVars, appVars>>

SetAudioQuality ==
    /\ \E quality \in Qualities, ok \in BOOLEAN :
        audio_quality' = set_audio_quality(quality, ok)
    /\ UNCHANGED <<url, url_audio_quality, url_last, url_run, playerVars, slotVars, callVars, lockVars, appVars>>

\* ------------------------------------------------ the track's metadata
\* The OnceCell fields of a Track value that cache API results; a Track
\* value owns its cells (a clone has cells of its own).
Slots == {"attributes", "album", "artist"}

Methods == {"get_attribtues", "get_album", "get_artist"}

\* The cell a method initializes.
SlotOf(method) ==
    CASE method = "get_attribtues" -> "attributes"
      [] method = "get_album" -> "album"
      [] method = "get_artist" -> "artist"

\* What the API returns for a slot of a track.
MetaOf(t, slot) == t

\* get_or_try_init whose closure runs on a filled cell too.
get_or_try_init_refetch(value, ok, new) ==
    IF ok
    THEN [cell |-> new, fetched |-> TRUE, res |-> "Ok", ret |-> new]
    ELSE [cell |-> value, fetched |-> TRUE, res |-> "Err", ret |-> None]

\* once_cell::sync::OnceCell::get_or_try_init on a cell that holds value:
\* a filled cell is returned; on an empty one the closure runs (ok says
\* whether it returns Ok(new)) and only an Ok fills the cell.
get_or_try_init(value, ok, new) ==
    IF value # None
    THEN [cell |-> value, fetched |-> FALSE, res |-> "Ok", ret |-> value]
    ELSE IF ok
    THEN [cell |-> new, fetched |-> TRUE, res |-> "Ok", ret |-> new]
    ELSE [cell |-> None, fetched |-> TRUE, res |-> "Err", ret |-> None]

\* once_cell::sync::OnceCell: the caller that finds the cell empty runs its
\* closure only while no other closure runs on the cell; otherwise it waits.
runs_initializer(value, initializers) == value = None /\ initializers = 0

\* Track::get_attribtues.
get_attribtues(t, ok) == get_or_try_init(cell[t]["attributes"], ok, MetaOf(t, "attributes"))

\* Track::get_album.
get_album(t, ok) == get_or_try_init(cell[t]["album"], ok, MetaOf(t, "album"))

\* Track::get_artist.
get_artist(t, ok) == get_or_try_init(cell[t]["artist"], ok, MetaOf(t, "artist"))

\* Track::has_info.
has_info(t) ==
    cell[t]["attributes"] # None /\ cell[t]["album"] # None /\ cell[t]["artist"] # None

SlotCall(method, t, ok) ==
    CASE method = "get_attribtues" -> get_attribtues(t, ok)
      [] method = "get_album" -> get_album(t, ok)
      [] method = "get_artist" -> get_artist(t, ok)

NoSlotLast ==
    [track |-> None, slot |-> "none", hit |-> FALSE, fetched |-> FALSE,
     res |-> "Ok", ret |-> None, retried |-> FALSE]

\* The call of method on track t that returns r: hit if it found the cell
\* filled, retried if it fetched after the call before it failed on the
\* same cell.
SlotLastAfter(method, t, r) ==
    [track |-> t, slot |-> SlotOf(method),
     hit |-> cell[t][SlotOf(method)] # None,
     fetched |-> r.fetched, res |-> r.res, ret |-> r.ret,
     retried |-> /\ r.fetched
                 /\ slot_last.res = "Err"
                 /\ slot_last.track = t
                 /\ slot_last.slot = SlotOf(method)]

\* A call returns with result r.
SlotReturn(method, t, r) ==
    /\ cell' = [cell EXCEPT ![t][SlotOf(method)] = r.cell]
    /\ fetched' = [fetched EXCEPT ![t][SlotOf(method)] =
                      IF r.fetched /\ r.res = "Ok" THEN @ + 1 ELSE @]
    /\ slot_last' = SlotLastAfter(method, t, r)

InFlight == {c \in Tracks \X Slots : inflight[c[1]][c[2]] > 0}

\* A call that finds its cell filled.
SlotCached ==
    /\ \E t \in Tracks, method \in Methods, ok \in BOOLEAN :
        /\ cell[t][SlotOf(method)] # None
        /\ SlotReturn(method, t, SlotCall(method, t, ok))
    /\ UNCHANGED <<inflight, playerVars, trackVars, callVars, lockVars, appVars>>

\* A call that finds its cell empty starts its closure: a fetch is in flight.
\* At most NumThreads threads call at a time.
SlotFetchBegin ==
    /\ Cardinality(InFlight) < NumThreads
    /\ \E t \in Tracks, method \in Methods :
        /\ runs_initializer(cell[t][SlotOf(method)], inflight[t][SlotOf(method)])
        /\ inflight' = [inflight EXCEPT ![t][SlotOf(method)] = @ + 1]
    /\ UNCHANGED <<cell, fetched, slot_last, playerVars, trackVars, callVars, lockVars, appVars>>

\* The closure returns and the call with it.
SlotFetchEnd ==
    /\ \E t \in Tracks, method \in Methods, ok \in BOOLEAN :
        /\ inflight[t][SlotOf(method)] > 0
        /\ inflight' = [inflight EXCEPT ![t][SlotOf(method)] = @ - 1]
        /\ SlotReturn(method, t, SlotCall(method, t, ok))
    /\ UNCHANGED <<playerVars, trackVars, callVars, lockVars, appVars>>

\* ------------------------------------------- the loads and the caches
\* The tracks of the user's collection, which App::play_all and
\* App::shuffle_all hand to set_queue.
Collection == [i \in 1..NumTracks |-> i]

\* The methods of Player that call play_new_track.
LoadOps == {"play", "next", "prev"}

Call(op, p, fail) ==
    CASE op = "play" -> play(p, fail)
      [] op = "next" -> next(p, fail)
      [] op = "prev" -> prev(p, fail)

\* The track that op hands to play_new_track on player p; None when op
\* makes no load.
LoadTarget(op, p) ==
    CASE op = "play" ->
            IF p.current_track # None /\ ~p.is_playing THEN None
            ELSE IF p.current_track = None /\ Len(p.queue) > 0 THEN Head(p.queue)
            ELSE None
      [] op = "next" ->
            IF p.current_track # None /\ Len(p.queue) > 0 THEN Head(p.queue) ELSE None
      [] op = "prev" ->
            IF p.current_track # None /\ Len(p.queue_history) > 0
            THEN p.queue_history[Len(p.queue_history)] ELSE None

\* The calls by which play_new_track resolves its track, in its order, and
\* those of its prefetch (Track::get_duration parses the attributes it finds
\* cached and is left out).
Calls == {"get_url", "get_attribtues", "get_album", "get_artist"}

\* The cells of a track whose metadata is all fetched, and of a fresh one.
Filled(t) == [slot \in Slots |-> MetaOf(t, slot)]
Empty == [slot \in Slots |-> None]

\* resolve that does not ask for the artist.
resolve_skips_artist(t, failing) ==
    LET u == get_url(CacheOf(t), failing # "get_url")
        a == get_attribtues(t, failing # "get_attribtues")
        b == get_album(t, failing # "get_album")
    IN  IF u.res = "Err" THEN [res |-> "Err", cache |-> u.cache, cells |-> cell[t]]
        ELSE IF a.res = "Err" THEN [res |-> "Err", cache |-> u.cache, cells |-> cell[t]]
        ELSE IF b.res = "Err"
        THEN [res |-> "Err", cache |-> u.cache,
              cells |-> [cell[t] EXCEPT !["attributes"] = a.cell]]
        ELSE [res |-> "Ok", cache |-> u.cache,
              cells |-> [cell[t] EXCEPT !["attributes"] = a.cell, !["album"] = b.cell]]

\* The head of play_new_track: get_url, get_attribtues, get_album and
\* get_artist on track t, each returning early on Err; failing is the call
\* whose fetch fails, if it fetches.
resolve(t, failing) ==
    LET u == get_url(CacheOf(t), failing # "get_url")
        a == get_attribtues(t, failing # "get_attribtues")
        b == get_album(t, failing # "get_album")
        c == get_artist(t, failing # "get_artist")
    IN  IF u.res = "Err" THEN [res |-> "Err", cache |-> u.cache, cells |-> cell[t]]
        ELSE IF a.res = "Err" THEN [res |-> "Err", cache |-> u.cache, cells |-> cell[t]]
        ELSE IF b.res = "Err"
        THEN [res |-> "Err", cache |-> u.cache,
              cells |-> [cell[t] EXCEPT !["attributes"] = a.cell]]
        ELSE IF c.res = "Err"
        THEN [res |-> "Err", cache |-> u.cache,
              cells |-> [cell[t] EXCEPT !["attributes"] = a.cell, !["album"] = b.cell]]
        ELSE [res |-> "Ok", cache |-> u.cache,
              cells |-> [attributes |-> a.cell, album |-> b.cell, artist |-> c.cell]]

\* prefetch that returns the first error of its calls.
prefetch_surfaces(p, failing) ==
    IF p.queue = <<>>
    THEN [p |-> p, res |-> "Ok", track |-> None, failed |-> FALSE,
          cache |-> [url |-> None, url_audio_quality |-> None], cells |-> Empty]
    ELSE LET t == Head(p.queue)
             a == get_attribtues(t, "get_attribtues" \notin failing)
             b == get_album(t, "get_album" \notin failing)
             c == get_artist(t, "get_artist" \notin failing)
             u == get_url(CacheOf(t), "get_url" \notin failing)
             failed == "Err" \in {a.res, b.res, c.res, u.res}
         IN  [p |-> p, res |-> IF failed THEN "Err" ELSE "Ok", track |-> t,
              failed |-> failed,
              cache |-> u.cache,
              cells |-> [attributes |-> a.cell, album |-> b.cell, artist |-> c.cell]]

\* The tail of play_new_track on the player p it has just set: the four
\* calls on the head of the queue, their results discarded; failing is the
\* set of calls whose fetch fails, if they fetch.
prefetch(p, failing) ==
    IF p.queue = <<>>
    THEN [p |-> p, res |-> "Ok", track |-> None, failed |-> FALSE,
          cache |-> [url |-> None, url_audio_quality |-> None], cells |-> Empty]
    ELSE LET t == Head(p.queue)
             a == get_attribtues(t, "get_attribtues" \notin failing)
             b == get_album(t, "get_album" \notin failing)
             c == get_artist(t, "get_artist" \notin failing)
             u == get_url(CacheOf(t), "get_url" \notin failing)
         IN  [p |-> p, res |-> "Ok", track |-> t,
              failed |-> "Err" \in {a.res, b.res, c.res, u.res},
              cache |-> u.cache,
              cells |-> [attributes |-> a.cell, album |-> b.cell, artist |-> c.cell]]

\* set_queue is handed clones of the collection's tracks: info holds the
\* tracks whose metadata the clones carry; the clones that the player held
\* are dropped.
LoadSetQueue ==
    /\ ~poisoned
    /\ player' = set_queue(player, Collection)
    /\ \E info \in SUBSET Tracks :
        cell' = [t \in Tracks |-> IF t \in info THEN Filled(t) ELSE Empty]
    /\ last' = NoLast
    /\ UNCHANGED <<loop_pc, poisoned, script, snapshot, trackVars,
                   inflight, fetched, slot_last, callVars, lockVars, appVars>>

\* play, next or prev with the calls of play_new_track on the tracks: the
\* track to load is resolved, then loaded; a track whose load fails is
\* dropped with its cells; after a load that succeeds the head of the queue
\* is prefetched.
LoadCall ==
    /\ ~poisoned
    /\ \E op \in LoadOps :
       \E t \in {LoadTarget(op, player)} :
       \E failing \in (IF t = None THEN {"none"} ELSE Calls \cup {"none"}) :
       \E rs \in {IF t = None
                  THEN [res |-> "Ok", cache |-> [url |-> None, url_audio_quality |-> None],
                        cells |-> Empty]
                  ELSE resolve(t, failing)} :
       \E fail \in (IF rs.res = "Err" THEN {"Resolve"} ELSE FailsOf(op) \ {"Resolve"}) :
       \E r \in {Call(op, player, fail)} :
       \E loaded \in {t # None /\ r.res = "Ok"} :
       \E prefetch_failing \in (IF loaded THEN SUBSET Calls ELSE {{}}) :
       \E pre \in {IF loaded THEN prefetch(r.p, prefetch_failing)
                   ELSE [p |-> r.p, res |-> r.res, track |-> None, failed |-> FALSE,
                         cache |-> [url |-> None, url_audio_quality |-> None],
                         cells |-> Empty]} :
            /\ player' = pre.p
            /\ poisoned' = PanicsOn(pre.res, op # "play")
            /\ url' = [x \in Tracks |->
                        IF x = pre.track THEN pre.cache.url
                        ELSE IF x = t THEN rs.cache.url
                        ELSE url[x]]
            /\ url_audio_quality' = [x \in Tracks |->
                        IF x = pre.track THEN pre.cache.url_audio_quality
                        ELSE IF x = t THEN rs.cache.url_audio_quality
                        ELSE url_audio_quality[x]]
            /\ cell' = [x \in Tracks |->
                        IF x = pre.track THEN pre.cells
                        ELSE IF x = t THEN (IF loaded THEN rs.cells ELSE Empty)
                        ELSE cell[x]]
            /\ last' = IF t = None THEN NoLast
                       ELSE [op |-> "load", by |-> op, track |-> t, loaded |-> loaded,
                             res |-> pre.res, prefetched |-> pre.track,
                             prefetch_failed |-> pre.failed]
    /\ UNCHANGED <<loop_pc, script, snapshot, audio_quality, url_last, url_run,
                   inflight, fetched, slot_last, callVars, lockVars, appVars>>

\* --------------------------- the tracks of the table and those of the player
\* The task draw_my_collections_tracks spawns for a row without info:
\* get_attribtues, get_artist and get_album on the table's track, each
\* unwrapped, so the task ends at the first fetch that fails.
UiFetchInfo ==
    /\ \E t \in Tracks, failing \in Methods \cup {"none"} :
        LET a == get_or_try_init(ui_cell[t]["attributes"], failing # "get_attribtues",
                                 MetaOf(t, "attributes"))
            c == get_or_try_init(ui_cell[t]["artist"], failing # "get_artist",
                                 MetaOf(t, "artist"))
            b == get_or_try_init(ui_cell[t]["album"], failing # "get_album",
                                 MetaOf(t, "album"))
        IN  /\ \E slot \in Slots : ui_cell[t][slot] = None
            /\ ui_cell' = [ui_cell EXCEPT ![t] =
                    IF a.res = "Err" THEN ui_cell[t]
                    ELSE IF c.res = "Err"
                    THEN [ui_cell[t] EXCEPT !["attributes"] = a.cell]
                    ELSE [attributes |-> a.cell, album |-> b.cell, artist |-> c.cell]]
    /\ UNCHANGED <<playerVars, trackVars, slotVars, callVars, lockVars,
                   issued, applied, locker>>

\* App::play_all and App::shuffle_all hand set_queue clones of the tracks of
\* User::collection_tracks, whose cells nothing ever fills (the table holds
\* clones of its own); the clones the player held are dropped.
PlayAllCopies ==
    /\ ~poisoned
    /\ player' = set_queue(player, Collection)
    /\ cell' = [t \in Tracks |-> Empty]
    /\ last' = NoLast
    /\ UNCHANGED <<loop_pc, poisoned, script, snapshot, trackVars,
                   inflight, fetched, slot_last, callVars, lockVars, appVars>>

\* ------------------------------------- concurrent callers of get_url
\* A thread inside Track::get_url holds the url and url_audio_quality
\* mutexes of its track (both are taken, in this order, before anything
\* else, and released together at return) from the moment its pc leaves
\* "idle": "gil" waiting at Python::with_gil, "python" running the resolver
\* under the GIL, "io" blocked in the resolver's network I/O with the GIL
\* released by the interpreter.
NoUrlCall == [pc |-> "idle", track |-> None]

UrlLocked(t) == \E th \in Threads : url_caller[th].pc # "idle" /\ url_caller[th].track = t

\* The condition of Track::get_url under which it resolves.
NeedsResolution(cache) ==
    cache.url = None
    \/ (cache.url_audio_quality # None /\ cache.url_audio_quality # get_audio_quality)

UrlReturn(th, t, r) ==
    /\ url' = [url EXCEPT ![t] = r.cache.url]
    /\ url_audio_quality' = [url_audio_quality EXCEPT ![t] = r.cache.url_audio_quality]
    /\ url_last' = [track |-> t,
                    hit |-> url[t] # None /\ url_audio_quality[t] = audio_quality,
                    resolved |-> r.resolved, res |-> r.res, ret |-> r.ret]
    /\ url_caller' = [url_caller EXCEPT ![th] = NoUrlCall]

\* self.url.lock() and self.url_audio_quality.lock() succeed; a call that
\* needs no resolution returns the cached URL at once.
UrlLock ==
    /\ \E th \in Threads, t \in Tracks :
        /\ url_caller[th].pc = "idle"
        /\ ~UrlLocked(t)
        /\ IF NeedsResolution(CacheOf(t))
           THEN /\ url_caller' = [url_caller EXCEPT ![th] = [pc |-> "gil", track |-> t]]
                /\ UNCHANGED <<url, url_audio_quality, url_last>>
           ELSE UrlReturn(th, t, get_url(CacheOf(t), TRUE))
    /\ UNCHANGED <<audio_quality, url_run, gil, playerVars, slotVars, lockVars, appVars>>

\* Python::with_gil acquires the GIL.
UrlGil ==
    /\ gil = None
    /\ \E th \in Threads :
        /\ url_caller[th].pc = "gil"
        /\ url_caller' = [url_caller EXCEPT ![th].pc = "python"]
        /\ gil' = th
    /\ UNCHANGED <<trackVars, playerVars, slotVars, lockVars, appVars>>

\* The resolver blocks in network I/O: the interpreter releases the GIL.
UrlIoBegin ==
    /\ \E th \in Threads :
        /\ url_caller[th].pc = "python"
        /\ url_caller' = [url_caller EXCEPT ![th].pc = "io"]
        /\ gil' = None
    /\ UNCHANGED <<trackVars, playerVars, slotVars, lockVars, appVars>>

\* The I/O is over: the interpreter takes the GIL again.
UrlIoEnd ==
    /\ gil = None
    /\ \E th \in Threads :
        /\ url_caller[th].pc = "io"
        /\ url_caller' = [url_caller EXCEPT ![th].pc = "python"]
        /\ gil' = th
    /\ UNCHANGED <<trackVars, playerVars, slotVars, lockVars, appVars>>

\* The resolver returns: with_gil releases the GIL, get_url stores the URL
\* and its quality on Ok, and returns.
UrlResolved ==
    /\ \E th \in Threads, ok \in BOOLEAN :
        /\ url_caller[th].pc = "python"
        /\ UrlReturn(th, url_caller[th].track, get_url(CacheOf(url_caller[th].track), ok))
        /\ gil' = None
    /\ UNCHANGED <<audio_quality, url_run, playerVars, slotVars, lockVars, appVars>>

\* ------------------------- get_url against a change of the audio quality
\* The resolver returns under the GIL: on Ok the caller leaves with_gil with the
\* URL of the quality the session has at that moment, on Err get_url returns.
UrlFetched ==
    /\ \E th \in Threads, ok \in BOOLEAN :
        /\ url_caller[th].pc = "python"
        /\ IF ok
           THEN /\ url_caller' = [url_caller EXCEPT ![th] =
                        [pc |-> "store", track |-> url_caller[th].track,
                         fetched |-> ResolvedUrl(audio_quality)]]
                /\ UNCHANGED <<url, url_audio_quality, url_last>>
           ELSE UrlReturn(th, url_caller[th].track,
                          get_url(CacheOf(url_caller[th].track), FALSE))
        /\ gil' = None
    /\ UNCHANGED <<audio_quality, url_run, playerVars, slotVars, lockVars, appVars>>

\* The Ok arm of get_url: the URL is stored, and the quality stored with it is
\* read from the session now.
UrlStore ==
    /\ \E th \in Threads :
        /\ url_caller[th].pc = "store"
        /\ UrlReturn(th, url_caller[th].track,
                     [cache |-> [url |-> url_caller[th].fetched,
                                 url_audio_quality |-> get_audio_quality],
                      resolved |-> TRUE, res |-> "Ok", ret |-> url_caller[th].fetched])
    /\ UNCHANGED <<audio_quality, url_run, gil, playerVars, slotVars, lockVars, appVars>>

\* Session::set_audio_quality on another thread: the setattr runs under the GIL.
SetAudioQualityGil ==
    /\ gil = None
    /\ \E quality \in Qualities, ok \in BOOLEAN :
        audio_quality' = set_audio_quality(quality, ok)
    /\ UNCHANGED <<url, url_audio_quality, url_last, url_run, url_caller, gil,
                   playerVars, slotVars, lockVars, appVars>>

\* ------------------------------------------------------ the player lock
\* The threads that lock the player: the UI thread, the background thread and
\* the blocking tasks the UI spawns.
UiThread == 1
LoopThread == 2
TaskThreads == 3..(2 + NumThreads)
PlayerThreads == {UiThread, LoopThread} \cup TaskThreads

\* The operations each thread runs under the player lock.
\*   UI thread: App::play_all (set_queue), App::shuffle_all (set_queue and
\*   shuffle_queue), App::toggle_play_pause, App::draw_now_playing;
\*   tasks: play, next, prev; background thread: its poll and its dispatch.
\*   (App::volume_down and App::volume_up, which lock the player to change
\*   its volume only, are the actions of SpecVolume.)
OpsOf(th) ==
    IF th = UiThread THEN {"set_queue", "shuffle_all", "toggle", "draw"}
    ELSE IF th = LoopThread THEN (IF loop_pc = "dead" THEN {} ELSE {loop_pc})
    ELSE {"play", "next", "prev"}

\* The UI thread propagates errors with `?`; the tasks and the background
\* thread unwrap them.
Unwraps(th) == th # UiThread

\* The fields of Player; the sink's own playback position advances on the
\* audio thread.
Fields(p) ==
    [current_track |-> p.current_track, queue |-> p.queue, queue_history |-> p.queue_history,
     position |-> p.position, is_playing |-> p.is_playing, volume |-> p.volume]

NotRunning == [op |-> "idle", saw |-> None]

\* Mutex::lock that does not wait for the holder.
mutex_lock_unguarded(holder) == TRUE

\* Mutex::lock returns when no thread holds the mutex.
mutex_lock(holder) == holder = None

\* player.lock() succeeds: the operation starts on the player it finds.
OpBegin ==
    /\ ~poisoned
    /\ mutex_lock(lock)
    /\ \E th \in PlayerThreads :
        /\ running[th].op = "idle"
        /\ \E op \in OpsOf(th) :
            running' = [running EXCEPT ![th] = [op |-> op, saw |-> Fields(player)]]
        /\ lock' = th
    /\ UNCHANGED <<playerVars, trackVars, slotVars, callVars, appVars>>

\* The operation of thread th ends with result r and the guard is dropped,
\* by a return or by a panic that poisons the mutex; ran names the method
\* that the background thread ran.
Finish(th, ran, r) ==
    /\ player' = r.p
    /\ last' = IF th = LoopThread THEN [NoLast EXCEPT !.op = ran] ELSE NoLast
    /\ poisoned' = (poisoned \/ PanicsOn(r.res, Unwraps(th)))
    /\ loop_pc' = IF th # LoopThread THEN loop_pc
                  ELSE LoopAfter(r.res, IF loop_pc = "poll" THEN "event" ELSE "poll")
    /\ running' = [running EXCEPT ![th] = NotRunning]
    /\ lock' = IF lock = th THEN None ELSE lock

\* A running operation acts on the player and ends.
OpEnd ==
    /\ \E th \in PlayerThreads :
        LET op == running[th].op IN
        \/ /\ op = "set_queue"
           /\ Finish(th, op, Ok(set_queue(player, Collection)))
        \/ /\ op = "shuffle_all"
           /\ \E sigma \in Perms(Len(Collection)) :
                Finish(th, op, Ok(shuffle_queue(set_queue(player, Collection), sigma)))
        \/ /\ op = "toggle"
           /\ IF is_playing(player)
              THEN \E fail \in FailsOf("pause") : Finish(th, "pause", pause(player, fail))
              ELSE \E fail \in FailsOf("play") : Finish(th, "play", play(player, fail))
        \/ /\ op = "draw"
           /\ Finish(th, op, Ok(player))
        \/ /\ op = "play"
           /\ \E fail \in FailsOf("play") : Finish(th, op, play(player, fail))
        \/ /\ op = "next"
           /\ \E fail \in FailsOf("next") : Finish(th, op, next(player, fail))
        \/ /\ op = "prev"
           /\ \E fail \in FailsOf("prev") : Finish(th, op, prev(player, fail))
        \/ /\ op = "poll"
           /\ \E fail \in FailsOf("poll") :
                LET d == poll_position(player, fail) IN
                Finish(th, IF d.op = "next" THEN "poll_next" ELSE d.op, d.r)
        \/ /\ op = "event"
           /\ \E event \in Events : \E fail \in FailsOf(EventOp(event)) :
                Finish(th, event.kind, dispatch(player, event, fail).r)
    /\ UNCHANGED <<script, snapshot, trackVars, slotVars, callVars, appVars>>

\* The background thread finds the channel empty and goes on to its poll.
LoopNoEvent ==
    /\ running[LoopThread].op = "idle"
    /\ NoEvent

\* The background thread finds the mutex poisoned.
LoopLockPanics ==
    /\ running[LoopThread].op = "idle"
    /\ loop_pc # "dead"
    /\ poisoned
    /\ LockPanics
    /\ last' = [NoLast EXCEPT !.op = "lock_panic"]
    /\ UNCHANGED <<trackVars, slotVars, callVars, lockVars, appVars>>

\* ------------------------------------------- the commands of the user
\* The transport commands of App::handle_terminal_event. App::play_all,
\* App::next_track and App::previous_track hand the player method to a task
\* (tokio::task::spawn_blocking) that locks the player on a thread of its
\* own; App::toggle_play_pause locks and calls on the UI thread. issued
\* holds the method of each command in the order of the key presses;
\* applied, the indices of the commands in the order their methods ran.

\* spawn_blocking whose closure may run again after it has run.
Spawned_again(iss, app) == {i \in 1..Len(iss) : iss[i] \in LoadOps}

\* The spawned tasks whose closure has not run yet: each runs once.
Spawned(iss, app) ==
    {i \in 1..Len(iss) : iss[i] \in LoadOps /\ \A k \in 1..Len(app) : app[k] # i}

\* The player method that a command runs on player p.
Apply(cmd, p, fail) ==
    IF cmd = "toggle"
    THEN IF is_playing(p) THEN pause(p, fail) ELSE play(p, fail)
    ELSE Call(cmd, p, fail)

\* App::play_all: set_queue on the UI thread, play() in a task.
AppPlayAll ==
    /\ ~poisoned
    /\ Len(issued) < MaxCalls
    /\ player' = set_queue(player, Collection)
    /\ issued' = Append(issued, "play")
    /\ UNCHANGED <<loop_pc, poisoned, last, script, snapshot, applied, ui_cell, locker,
                   trackVars, slotVars, callVars, lockVars>>

\* App::next_track: next() in a task.
AppNextTrack ==
    /\ ~poisoned
    /\ Len(issued) < MaxCalls
    /\ issued' = Append(issued, "next")
    /\ UNCHANGED <<playerVars, applied, ui_cell, locker, trackVars, slotVars, callVars, lockVars>>

\* App::previous_track: prev() in a task.
AppPreviousTrack ==
    /\ ~poisoned
    /\ Len(issued) < MaxCalls
    /\ issued' = Append(issued, "prev")
    /\ UNCHANGED <<playerVars, applied, ui_cell, locker, trackVars, slotVars, callVars, lockVars>>

\* App::toggle_play_pause: pause() or play() on the UI thread, the error
\* propagated with `?`.
AppTogglePlayPause ==
    /\ ~poisoned
    /\ Len(issued) < MaxCalls
    /\ \E fail \in (IF is_playing(player) THEN FailsOf("pause") ELSE FailsOf("play")) :
        player' = Apply("toggle", player, fail).p
    /\ issued' = Append(issued, "toggle")
    /\ applied' = Append(applied, Len(issued) + 1)
    /\ UNCHANGED <<loop_pc, poisoned, last, script, snapshot, ui_cell, locker,
                   trackVars, slotVars, callVars, lockVars>>

\* A spawned task gets the player lock and runs its closure:
\* player.lock().unwrap().<method>().unwrap().
TaskRuns ==
    /\ ~poisoned
    /\ \E i \in Spawned(issued, applied) :
       \E fail \in FailsOf(issued[i]) :
       \E r \in {Apply(issued[i], player, fail)} :
            /\ player' = r.p
            /\ poisoned' = PanicsOn(r.res, TRUE)
            /\ applied' = Append(applied, i)
    /\ UNCHANGED <<loop_pc, last, script, snapshot, issued, ui_cell, locker,
                   trackVars, slotVars, callVars, lockVars>>

\* ------------------------------------------------------- specifications
\* Player::new and Track::new; the session starts under any quality.
InitTrack ==
    /\ player = NewPlayer
    /\ loop_pc = "poll"
    /\ poisoned = FALSE
    /\ last = NoLast
    /\ script = NoScript
    /\ snapshot = NoSnapshot
    /\ url = [t \in Tracks |-> None]
    /\ url_audio_quality = [t \in Tracks |-> None]
    /\ audio_quality \in Qualities
    /\ url_last = NoUrlLast
    /\ url_run = NoRun
    /\ cell = [t \in Tracks |-> [slot \in Slots |-> None]]
    /\ inflight = [t \in Tracks |-> [slot \in Slots |-> 0]]
    /\ fetched = [t \in Tracks |-> [slot \in Slots |-> 0]]
    /\ slot_last = NoSlotLast
    /\ url_caller = [th \in Threads |-> NoUrlCall]
    /\ gil = None
    /\ lock = None
    /\ running = [th \in PlayerThreads |-> NotRunning]
    /\ issued = <<>>
    /\ applied = <<>>
    /\ ui_cell = [t \in Tracks |-> [slot \in Slots |-> None]]
    /\ locker = [th \in PlayerThreads |-> [prog |-> <<>>, pc |-> 1]]

\* The same, the quality (which the player never reads) fixed.
Init ==
    /\ InitTrack
    /\ audio_quality = 1

Next ==
    \/ SetQueue
    \/ ShuffleQueue
    \/ Play
    \/ Pause
    \/ NextTrack
    \/ PreviousTrack
    \/ SinkAdvance
    \/ PollPosition
    \/ NoEvent
    \/ DispatchEvent

\* The player, its clients and its background thread.
Spec == Init /\ [][Next]_vars

NextQueue ==
    \/ SetQueue
    \/ Play
    \/ NextTrack
    \/ PreviousTrack

\* The queue navigation alone: set_queue, play, next and prev as the clients
\* call them.
SpecQueue == Init /\ [][NextQueue]_vars

\* set_queue handed the tracks of the collection, each once.
SetQueueCollection ==
    /\ ~poisoned
    /\ Invoke("set_queue", Ok(set_queue(player, Collection)), Collection)
    /\ UNCHANGED <<loop_pc, poisoned, trackVars, slotVars, callVars, lockVars, appVars>>

NextCollection ==
    \/ SetQueueCollection
    \/ ShuffleQueue
    \/ Play
    \/ Pause
    \/ NextTrack
    \/ PreviousTrack
    \/ SinkAdvance
    \/ PollPosition
    \/ NoEvent
    \/ DispatchEvent

\* The player, its clients and its background thread, the queue always set
\* to the collection.
SpecCollection == Init /\ [][NextCollection]_vars

NextOrder ==
    \/ AppPlayAll
    \/ AppNextTrack
    \/ AppPreviousTrack
    \/ AppTogglePlayPause
    \/ TaskRuns

\* The transport commands of the user and the tasks that run them.
SpecOrder == Init /\ [][NextOrder]_vars

\* ---------------------------------------------------------------------------
\* the mutexes and the order in which each function takes them
\* ---------------------------------------------------------------------------

\* The mutexes of the program: the player's, the one of App::collection_tracks,
\* the two of every track (url, url_audio_quality) and Python's GIL.
PlayerMutex == [kind |-> "player", track |-> None]

CollectionMutex == [kind |-> "collection_tracks", track |-> None]

UrlMutex(t) == [kind |-> "url", track |-> t]

UrlQualityMutex(t) == [kind |-> "url_audio_quality", track |-> t]

GilMutex == [kind |-> "gil", track |-> None]

Acquire(l) == [act |-> "lock", lock |-> l]

Release(l) == [act |-> "unlock", lock |-> l]

\* get_url: the url mutex, then the url_audio_quality mutex, then (only when
\* the URL has to be fetched) the GIL; the guards are dropped in reverse order.
get_url_locks(t, fetch) ==
    <<Acquire(UrlMutex(t)), Acquire(UrlQualityMutex(t))>>
    \o (IF fetch THEN <<Acquire(GilMutex), Release(GilMutex)>> ELSE <<>>)
    \o <<Release(UrlQualityMutex(t)), Release(UrlMutex(t))>>

\* play_new_track: get_url of the track, later get_url of the track behind it.
play_new_track_locks(t, nxt, fetch) ==
    get_url_locks(t, fetch)
    \o (IF nxt = None THEN <<>> ELSE get_url_locks(nxt, fetch))

\* A player method run under the player's mutex.
under_player_lock(body) == <<Acquire(PlayerMutex)>> \o body \o <<Release(PlayerMutex)>>

collection_load_task_takes_player ==
    <<Acquire(CollectionMutex), Acquire(PlayerMutex),
      Release(PlayerMutex), Release(CollectionMutex)>>

\* The task that loads the collection stores it under the collection mutex.
collection_load_task == <<Acquire(CollectionMutex), Release(CollectionMutex)>>

\* draw_my_collections_tracks reads the table under the collection mutex.
draw_my_collections_tracks_locks == <<Acquire(CollectionMutex), Release(CollectionMutex)>>

\* go_to_currently_playing: the player's mutex and, with a current track, the
\* collection mutex inside it.
go_to_currently_playing_locks(has_current) ==
    under_player_lock(IF has_current
                      THEN <<Acquire(CollectionMutex), Release(CollectionMutex)>>
                      ELSE <<>>)

\* The loads a player method may run: none, or play_new_track of a track with
\* or without a track behind it, with or without a fetch.
LoadLocks ==
    {<<>>} \cup {play_new_track_locks(t, nxt, fetch) :
                    t \in Tracks, nxt \in {None} \cup Tracks, fetch \in BOOLEAN}

\* What a thread may run: the interface thread draws, jumps to the current track
\* and calls player methods (toggle_play_pause may load); the loop polls and
\* handles events; a task loads the collection or runs play, next or prev.
LockPrograms(th) ==
    IF th = UiThread
    THEN {draw_my_collections_tracks_locks}
         \cup {go_to_currently_playing_locks(b) : b \in BOOLEAN}
         \cup {under_player_lock(body) : body \in LoadLocks}
    ELSE IF th = LoopThread
    THEN {under_player_lock(body) : body \in LoadLocks}
    ELSE {collection_load_task}
         \cup {under_player_lock(body) : body \in LoadLocks \ {<<>>}}

Idle == [prog |-> <<>>, pc |-> 1]

\* The mutexes a thread holds: those it locked and has not unlocked so far.
HeldBy(lk) ==
    {lk.prog[i].lock : i \in {j \in 1..(lk.pc - 1) :
        /\ lk.prog[j].act = "lock"
        /\ \A k \in (j + 1)..(lk.pc - 1) : lk.prog[k] # Release(lk.prog[j].lock)}}

HolderOf(l) ==
    IF \E th \in PlayerThreads : l \in HeldBy(locker[th])
    THEN CHOOSE th \in PlayerThreads : l \in HeldBy(locker[th])
    ELSE None

NoMutex == [kind |-> "none", track |-> None]

\* The mutex a thread is about to lock, if any.
Wants(lk) ==
    IF lk.pc <= Len(lk.prog) /\ lk.prog[lk.pc].act = "lock"
    THEN lk.prog[lk.pc].lock
    ELSE NoMutex

Advance(lk) ==
    IF lk.pc = Len(lk.prog) THEN Idle ELSE [lk EXCEPT !.pc = lk.pc + 1]

\* A thread starts one of its functions and comes to the first mutex of it. What
\* the function does after that is decided by what it reads under that mutex.
LockStart ==
    \E th \in PlayerThreads : \E prog \in LockPrograms(th) :
        /\ locker[th] = Idle
        /\ locker' = [locker EXCEPT ![th] = [prog |-> SubSeq(prog, 1, 1), pc |-> 1]]
        /\ UNCHANGED <<playerVars, trackVars, slotVars, callVars, lockVars,
                       issued, applied, ui_cell>>

\* Mutex::lock returns once no thread holds the mutex.
LockAcquire ==
    \E th \in PlayerThreads :
        /\ Wants(locker[th]) # NoMutex
        /\ mutex_lock(HolderOf(Wants(locker[th])))
        /\ IF locker[th].pc = 1
           THEN \E prog \in LockPrograms(th) :
                   /\ prog[1] = locker[th].prog[1]
                   /\ locker' = [locker EXCEPT ![th] = Advance([prog |-> prog, pc |-> 1])]
           ELSE locker' = [locker EXCEPT ![th] = Advance(locker[th])]
        /\ UNCHANGED <<playerVars, trackVars, slotVars, callVars, lockVars,
                       issued, applied, ui_cell>>

\* A guard goes out of scope.
LockRelease ==
    \E th \in PlayerThreads :
        /\ locker[th].pc <= Len(locker[th].prog)
        /\ locker[th].prog[locker[th].pc].act = "unlock"
        /\ locker' = [locker EXCEPT ![th] = Advance(locker[th])]
        /\ UNCHANGED <<playerVars, trackVars, slotVars, callVars, lockVars,
                       issued, applied, ui_cell>>

NextLocks == LockStart \/ LockAcquire \/ LockRelease

SpecLocks == Init /\ [][NextLocks]_vars

NextUrlQuality ==
    \/ UrlLock
    \/ UrlGil
    \/ UrlFetched
    \/ UrlStore
    \/ SetAudioQualityGil

\* Callers of get_url while the audio quality of the session is being set.
SpecUrlQuality == InitTrack /\ [][NextUrlQuality]_vars

NextCopies ==
    \/ UiFetchInfo
    \/ PlayAllCopies
    \/ LoadCall

\* The metadata of the tracks of the table and of the tracks the player loads.
SpecCopies == InitTrack /\ [][NextCopies]_vars

NextVolume ==
    \/ SetVolume
    \/ VolumeDown
    \/ VolumeUp

\* The volume control alone.
SpecVolume == Init /\ [][NextVolume]_vars

NextTrackUrl ==
    \/ GetUrl
    \/ SetAudioQuality

\* The URL cache of the tracks and the session's audio quality.
SpecTrack == InitTrack /\ [][NextTrackUrl]_vars

NextLoad ==
    \/ LoadSetQueue
    \/ LoadCall
    \/ SetAudioQuality

\* The loads of the player with the caches of the tracks it holds.
SpecLoad == InitTrack /\ [][NextLoad]_vars

NextSlots ==
    \/ SlotCached
    \/ SlotFetchBegin
    \/ SlotFetchEnd

\* The metadata cells of the tracks and their concurrent callers.
SpecSlots == Init /\ [][NextSlots]_vars

NextLock ==
    \/ OpBegin
    \/ OpEnd
    \/ LoopNoEvent
    \/ LoopLockPanics
    \/ SinkAdvance

\* The threads of the program and the player mutex.
SpecLock == Init /\ [][NextLock]_vars

NextUrlCalls ==
    \/ UrlLock
    \/ UrlGil
    \/ UrlIoBegin
    \/ UrlIoEnd
    \/ UrlResolved

\* Concurrent callers of get_url under one audio quality.
SpecUrlCalls == Init /\ [][NextUrlCalls]_vars

\* ------------------------------------------------------------- properties
Count(seq, t) == Cardinality({i \in 1..Len(seq) : seq[i] = t})
SameBag(a, b) == \A t \in Tracks : Count(a, t) = Count(b, t)

\* C1: a next() that finds a current track and an empty queue, and returns
\* Ok, leaves current track, queue and history as they are, sets the
\* position to 0 and leaves is_playing false.
C1_NextEmptyQueuePauses ==
    [][\A fail \in FailsOf("next") :
        LET r == next(player, fail) IN
        (/\ player.current_track # None
         /\ player.queue = <<>>
         /\ r.res = "Ok"
         /\ player' = r.p)
        => (/\ player'.current_track = player.current_track
            /\ player'.queue = player.queue
            /\ player'.queue_history = player.queue_history
            /\ player'.position = 0
            /\ ~is_playing(player'))]_vars

\* C2: right after set_queue the player is Idle: no current track and
\* is_playing false.
C2_SetQueueIdle ==
    script.step = 0 => (get_current_track(player) = None /\ ~is_playing(player))

\* C3: the gain of the sink is MAX_VOLUME * get_volume / 100 and never
\* exceeds MAX_VOLUME.
C3_GainWithinCeiling ==
    /\ player.sink_volume * 100 = MAX_VOLUME * get_volume(player)
    /\ player.sink_volume <= MAX_VOLUME

\* C4: the dispatch of a media event on an unpoisoned lock never ends the
\* background thread, whatever the dispatched method returns: the thread
\* goes on to its next poll.
C4_LoopSurvivesErrors ==
    [][(~poisoned /\ loop_pc = "event") => loop_pc' # "dead"]_vars

\* C5: after next() and then prev(), both loading successfully and nothing
\* between them, current track, queue and history are what next() found.
C5_NextPrevRoundTrip ==
    snapshot.phase = "returned" =>
        /\ player.current_track = snapshot.current_track
        /\ player.queue = snapshot.queue
        /\ player.queue_history = snapshot.queue_history

C5_Witness ==
    /\ snapshot.phase = "returned"
    /\ Len(snapshot.queue) >= 2
    /\ snapshot.queue[1] # snapshot.queue[2]
    /\ player.current_track = snapshot.current_track

\* C6: after set_queue([t0..tn]), play() and n calls of next(), all Ok and
\* nothing else in between, the current track is tn, the queue is empty and
\* the history is [t0..t(n-1)].
C6_PlayThrough ==
    (Len(script.tracks) >= 1 /\ script.step = Len(script.tracks)) =>
        /\ player.current_track = script.tracks[Len(script.tracks)]
        /\ player.queue = <<>>
        /\ player.queue_history = SubSeq(script.tracks, 1, Len(script.tracks) - 1)

C6_Witness ==
    /\ Len(script.tracks) = MaxQueue
    /\ script.step = MaxQueue
    /\ script.tracks[1] # script.tracks[2]
    /\ Len(player.queue_history) = MaxQueue - 1

\* C7 as stated: every play() that finds no current track and a non-empty
\* queue makes the head of the queue the current track, leaves the rest as
\* the queue, keeps the history and leaves the player playing.
C7_PlayPopsHeadAlways ==
    [][\A fail \in FailsOf("play") :
        LET r == play(player, fail) IN
        (/\ player.current_track = None
         /\ Len(player.queue) > 0
         /\ player' = r.p)
        => (/\ player'.current_track = Head(player.queue)
            /\ player'.queue = Tail(player.queue)
            /\ player'.queue_history = player.queue_history
            /\ is_playing(player'))]_vars

\* C7 amended: a play() that finds no current track and a non-empty queue
\* always removes the head of the queue and keeps the history; when its load
\* succeeds the head is the current track and the player is playing, when it
\* fails there is still no current track.
C7_PlayPopsHead ==
    [][\A fail \in FailsOf("play") :
        LET r == play(player, fail) IN
        (/\ player.current_track = None
         /\ Len(player.queue) > 0
         /\ player' = r.p)
        => (/\ player'.queue = Tail(player.queue)
            /\ player'.queue_history = player.queue_history
            /\ r.res = "Ok" => (player'.current_track = Head(player.queue) /\ is_playing(player'))
            /\ r.res = "Err" => player'.current_track = None)]_vars

C7_Witness ==
    /\ script.step = 1
    /\ Len(script.tracks) = MaxQueue
    /\ script.tracks[1] # script.tracks[MaxQueue]
    /\ player.current_track = script.tracks[1]
    /\ Len(player.queue) = MaxQueue - 1
    /\ is_playing(player)

\* C8: right after set_queue(tracks) there is no current track, the queue
\* is tracks and the history is empty.
C8_SetQueueResets ==
    script.step = 0 =>
        /\ get_current_track(player) = None
        /\ player.queue = script.tracks
        /\ player.queue_history = <<>>

\* set_queue called while a track was playing.
C8_Witness ==
    /\ script.step = 0
    /\ Len(script.tracks) = MaxQueue
    /\ player.queue = script.tracks
    /\ is_playing(player)
    /\ player.ctl_metadata # None

\* C9: a shuffle_queue step leaves in the queue exactly the tracks of the
\* old queue and the old history, each as often as before, empties the
\* history and keeps current track, playing flag and position.
C9_ShufflePreserves ==
    [][last'.op = "shuffle_queue" =>
        /\ SameBag(player'.queue, player.queue \o player.queue_history)
        /\ Len(player'.queue) = Len(player.queue) + Len(player.queue_history)
        /\ player'.queue_history = <<>>
        /\ player'.current_track = player.current_track
        /\ player'.is_playing = player.is_playing
        /\ player'.position = player.position]_vars

\* A shuffle during playback that merged a history and changed the order.
C9_Witness ==
    /\ last.op = "shuffle_queue"
    /\ last.history >= 1
    /\ last.current
    /\ is_playing(player)
    /\ Len(player.queue) = MaxQueue - 1
    /\ player.queue[1] # player.queue[2]

\* C10 as stated: a call that finds a URL cached under the session's quality
\* does not resolve and returns it; once a URL is cached under A, the calls
\* under another quality B resolve exactly once between them.
C10_OneReResolutionAlways ==
    /\ url_last.hit =>
        (~url_last.resolved /\ url_last.res = "Ok" /\ url_last.ret = url[url_last.track])
    /\ url_run.calls >= 1 => url_run.resolutions = 1

\* C10 amended: the same, the calls under B resolving exactly once between
\* them provided none of them failed; then the URL is cached under B.
C10_OneReResolution ==
    /\ url_last.hit =>
        (~url_last.resolved /\ url_last.res = "Ok" /\ url_last.ret = url[url_last.track])
    /\ (url_run.calls >= 1 /\ ~url_run.failed) =>
        /\ url_run.resolutions = 1
        /\ url[url_run.track] = ResolvedUrl(url_run.qb)
        /\ url_audio_quality[url_run.track] = url_run.qb

C10_Witness ==
    /\ url_run.calls = MaxCalls
    /\ ~url_run.failed
    /\ url_run.resolutions = 1
    /\ url_last.track = url_run.track
    /\ url_last.hit

\* C11: every attributes, album and artist cell is fetched successfully at
\* most once and is filled exactly when a fetch of it succeeded; a call that
\* finds its cell filled returns the cached value without fetching; a call
\* whose fetch fails returns the error and leaves the cell empty, so that
\* the next call on it fetches again.
C11_ResolveOnce ==
    /\ \A t \in Tracks, slot \in Slots :
        /\ fetched[t][slot] <= 1
        /\ cell[t][slot] # None <=> fetched[t][slot] = 1
    /\ slot_last.hit =>
        /\ ~slot_last.fetched
        /\ slot_last.res = "Ok"
        /\ slot_last.ret = cell[slot_last.track][slot_last.slot]
        /\ slot_last.ret = MetaOf(slot_last.track, slot_last.slot)
    /\ slot_last.res = "Err" =>
        /\ slot_last.fetched
        /\ slot_last.ret = None
        /\ cell[slot_last.track][slot_last.slot] = None
        /\ inflight[slot_last.track][slot_last.slot] = 0 =>
            runs_initializer(cell[slot_last.track][slot_last.slot],
                             inflight[slot_last.track][slot_last.slot])

\* A fetch that failed, was tried again and succeeded, on a track whose
\* three cells are now filled.
C11_Witness ==
    /\ slot_last.retried
    /\ slot_last.res = "Ok"
    /\ has_info(slot_last.track)
    /\ \A slot \in Slots : fetched[slot_last.track][slot] = 1

\* C12: the callers of get_url never have two resolutions of one track in
\* flight; once a track's URL is cached no caller resolves it again; and a
\* caller that is ready to resolve is never kept waiting by a caller of
\* another track.
C12_PerSlotExclusion ==
    /\ \A t \in Tracks :
        /\ Cardinality({th \in Threads : url_caller[th].pc # "idle" /\ url_caller[th].track = t}) <= 1
        /\ url[t] # None => ~UrlLocked(t)
    /\ url_last.hit => (~url_last.resolved /\ url_last.ret = url[url_last.track])
    /\ \A th \in Threads : url_caller[th].pc = "gil" => gil = None

\* C13: a thread that executes a player operation holds the player lock
\* from the start of the operation to its end, no two threads execute
\* operations at the same time, and the fields of the player stay as the
\* running operation found them until it ends.
C13_MutualExclusion ==
    /\ \A th \in PlayerThreads :
        running[th].op # "idle" => (lock = th /\ running[th].saw = Fields(player))
    /\ Cardinality({th \in PlayerThreads : running[th].op # "idle"}) <= 1
    /\ lock # None => running[lock].op # "idle"

\* A task inside next(), about to load the head of the queue during playback.
C13_Witness ==
    /\ \E th \in TaskThreads : running[th].op = "next" /\ lock = th
    /\ player.current_track # None
    /\ Len(player.queue) > 0
    /\ is_playing(player)
    /\ loop_pc = "event"

\* The external calls of a load (play_new_track).
LoadFails == {"Resolve", "Metadata", "Controls", "Stream"}

\* C14: a next() (a prev()) that finds a current track and a non-empty queue
\* (history) and whose load fails returns the error and leaves the player
\* with no current track, the old current track at the tail of the history
\* (the front of the queue) and the track it tried to load in neither.
C14_FailedLoadNoRollback ==
    [][\A fail \in LoadFails :
        /\ LET r == next(player, fail) IN
           (/\ player.current_track # None
            /\ Len(player.queue) > 0
            /\ player' = r.p)
           => (/\ r.res = "Err"
               /\ player'.current_track = None
               /\ player'.queue_history = Append(player.queue_history, player.current_track)
               /\ player'.queue = Tail(player.queue))
        /\ LET r == prev(player, fail) IN
           (/\ player.current_track # None
            /\ Len(player.queue_history) > 0
            /\ player' = r.p)
           => (/\ r.res = "Err"
               /\ player'.current_track = None
               /\ player'.queue = <<player.current_track>> \o player.queue
               /\ player'.queue_history =
                      SubSeq(player.queue_history, 1, Len(player.queue_history) - 1))]_vars

\* No current track beside a non-empty history: the state a failed load in
\* next() or prev() leaves, the error unwrapped by the caller.
C14_Witness ==
    /\ player.current_track = None
    /\ Len(player.queue_history) >= 1
    /\ Len(player.queue) >= 1
    /\ poisoned

\* C15: get_volume() is always within 0..100: set_volume(v) stores v, and
\* 100 when v > 100; volume_up at 100 leaves 100; volume_down at a volume
\* below its decrement stores 0.
C15_VolumeInRange ==
    [][/\ get_volume(player') \in 0..100
       /\ \A v \in 0..VolumeArgMax :
            player' = set_volume(player, v) =>
                get_volume(player') = IF v > 100 THEN 100 ELSE v
       /\ (get_volume(player) = 100 /\ player' = volume_up(player)) =>
            get_volume(player') = 100
       /\ (get_volume(player) < DECREASE_AMOUNT /\ player' = volume_down(player)) =>
            get_volume(player') = 0]_vars

\* volume_up was called at volume 100.
C15_Witness ==
    /\ get_volume(player) = 100
    /\ player.sink_volume = (MAX_VOLUME * (100 + INCREASE_AMOUNT)) \div 100

\* C16: a prev() that finds a current track and an empty history, and
\* returns Ok, leaves current track, queue and history as they are, sets the
\* position to 0 and leaves is_playing false.
C16_PrevEmptyHistoryPauses ==
    [][\A fail \in FailsOf("prev") :
        LET r == prev(player, fail) IN
        (/\ player.current_track # None
         /\ player.queue_history = <<>>
         /\ r.res = "Ok"
         /\ player' = r.p)
        => (/\ player'.current_track = player.current_track
            /\ player'.queue = player.queue
            /\ player'.queue_history = player.queue_history
            /\ player'.position = 0
            /\ ~is_playing(player'))]_vars

\* C17: a play() that finds a paused current track sets is_playing and
\* leaves current track, queue, history and position as they are (when it
\* returns Ok the display says Playing and the sink plays); a play() that
\* finds a playing current track, or no current track and an empty queue,
\* returns Ok and changes nothing.
C17_PlayResumes ==
    [][\A fail \in FailsOf("play") :
        LET r == play(player, fail) IN
        /\ (player.current_track # None /\ ~is_playing(player) /\ player' = r.p) =>
            /\ is_playing(player')
            /\ player'.current_track = player.current_track
            /\ player'.queue = player.queue
            /\ player'.queue_history = player.queue_history
            /\ player'.position = player.position
            /\ r.res = "Ok" => (player'.ctl_playback = "Playing" /\ ~player'.sink_paused)
        /\ ((player.current_track # None /\ is_playing(player))
              \/ (player.current_track = None /\ player.queue = <<>>)) =>
            (r.res = "Ok" /\ r.p = player)]_vars

\* A track paused after it had played for a while, resumed by play().
C17_Witness ==
    /\ last.op = "resume"
    /\ is_playing(player)
    /\ player.position > 0
    /\ player.ctl_playback = "Playing"
    /\ ~player.sink_paused
    /\ player.sink_source = player.current_track

\* C18: a pause() that returns Ok on a playing player clears is_playing,
\* sets the display to Paused and leaves current track, queue, history and
\* position as they are; on a player that is not playing it changes
\* nothing, the display included.
C18_PauseOnlyWhenPlaying ==
    [][\A fail \in FailsOf("pause") :
        LET r == pause(player, fail) IN
        (r.res = "Ok" /\ player' = r.p) =>
            IF is_playing(player)
            THEN /\ ~is_playing(player')
                 /\ player'.ctl_playback = "Paused"
                 /\ player'.current_track = player.current_track
                 /\ player'.queue = player.queue
                 /\ player'.queue_history = player.queue_history
                 /\ player'.position = player.position
            ELSE player' = player]_vars

\* C19: a get_url call (a step that leaves the session's quality alone)
\* that returns Err has attempted a resolution, hands no URL to its caller
\* and leaves the cached URL and quality of every track as they were, so
\* that the next call on the track resolves again.
C19_FailureCachesNothing ==
    [][(url_last'.res = "Err" /\ audio_quality' = audio_quality) =>
        /\ url_last'.resolved
        /\ url_last'.ret = None
        /\ url' = url
        /\ url_audio_quality' = url_audio_quality
        /\ \/ url'[url_last'.track] = None
           \/ /\ url_audio_quality'[url_last'.track] # None
              /\ url_audio_quality'[url_last'.track] # audio_quality']_vars

\* A failed re-resolution: the URL cached under another quality is kept.
C19_Witness ==
    /\ url_last.res = "Err"
    /\ url[url_last.track] # None
    /\ url_audio_quality[url_last.track] # audio_quality
    /\ url[url_last.track] = ResolvedUrl(url_audio_quality[url_last.track])

\* C20 as stated: a SetPosition(q) event taken from the channel by the loop
\* puts the sink and the stored position at q when there is a current
\* track, and changes nothing when there is none.
C20_SetPositionApplied ==
    [][\A q \in Positions : \A fail \in FailsOf("set_position") :
        LET d == dispatch(player, [kind |-> "SetPosition", pos |-> q], fail) IN
        (/\ loop_pc = "event"
         /\ ~poisoned
         /\ player' = d.r.p
         /\ last' = LastAfter(d.op)
         /\ loop_pc' = LoopAfter(d.r.res, "poll"))
        => /\ player.current_track # None =>
                (player'.sink_pos = q /\ player'.position = q)
           /\ player.current_track = None => player' = player]_vars

\* C20 amended: with no current track the event changes nothing and the
\* loop goes on. With a current track and a seek that succeeds the stored
\* position is q and a sink that holds a source is at q (an emptied sink is
\* not sought), current track, queue, history and playing flag as before;
\* when the seek fails the player is unchanged and the unwrapped error ends
\* the loop with the lock poisoned.
C20_SetPositionIfCurrent ==
    [][\A q \in Positions : \A fail \in FailsOf("set_position") :
        LET d == dispatch(player, [kind |-> "SetPosition", pos |-> q], fail) IN
        (/\ loop_pc = "event"
         /\ ~poisoned
         /\ player' = d.r.p
         /\ last' = LastAfter(d.op)
         /\ poisoned' = PanicsOn(d.r.res, TRUE)
         /\ loop_pc' = LoopAfter(d.r.res, "poll"))
        => /\ player.current_track = None =>
                (d.r.res = "Ok" /\ player' = player /\ loop_pc' = "poll")
           /\ (player.current_track # None /\ d.r.res = "Ok") =>
                /\ player'.position = q
                /\ player'.sink_pos = IF player.sink_source # None THEN q ELSE player.sink_pos
                /\ player'.sink_source = player.sink_source
                /\ player'.current_track = player.current_track
                /\ player'.queue = player.queue
                /\ player'.queue_history = player.queue_history
                /\ player'.is_playing = player.is_playing
           /\ (player.current_track # None /\ d.r.res = "Err") =>
                (player' = player /\ loop_pc' = "dead" /\ poisoned')]_vars

\* A SetPosition event that moved a playing track forward.
C20_Witness ==
    /\ last.op = "seek"
    /\ loop_pc = "poll"
    /\ player.current_track # None
    /\ player.sink_source = player.current_track
    /\ player.position = MaxPos - 1
    /\ player.sink_pos = MaxPos - 1

\* C21: a load that succeeds (inside play, next or prev) leaves the track it
\* was given as the current track, is_playing() true, the stored position 0,
\* and the display with that track's metadata and the status Playing.
C21_LoadSucceeds ==
    [][\A op \in LoadOps : \A fail \in FailsOf(op) :
        LET r == Call(op, player, fail) IN
        (/\ LoadTarget(op, player) # None
         /\ r.res = "Ok"
         /\ player' = r.p)
        => /\ get_current_track(player') = LoadTarget(op, player)
           /\ is_playing(player')
           /\ get_position(player') = 0
           /\ player'.ctl_metadata = LoadTarget(op, player)
           /\ player'.ctl_playback = "Playing"]_vars

\* The second track of the collection just loaded by next().
C21_Witness ==
    /\ player.current_track = Collection[2]
    /\ player.queue_history = <<Collection[1]>>
    /\ is_playing(player)
    /\ player.position = 0
    /\ player.sink_source = player.current_track
    /\ player.sink_pos = 0
    /\ player.ctl_metadata = player.current_track
    /\ player.ctl_playback = "Playing"

\* C22: once the player lock is poisoned, a step of the background thread
\* leaves the player as it was and ends the thread, unless it is the step
\* that finds the channel empty and takes no lock, after which the poll's
\* lock() ends it; the thread is never inside an operation on the player
\* again, and an ended thread never runs again.
C22_PoisonedLockEndsLoop ==
    [][/\ (poisoned /\ loop_pc' # loop_pc) =>
            /\ player' = player
            /\ loop_pc' = "dead" \/ (loop_pc = "event" /\ loop_pc' = "poll")
       /\ poisoned => running'[LoopThread] = NotRunning
       /\ loop_pc = "dead" => (loop_pc' = "dead" /\ running'[LoopThread] = NotRunning)]_vars

\* The background thread ended at its lock() after a task's next() panicked
\* on a failed load.
C22_Witness ==
    /\ last.op = "lock_panic"
    /\ loop_pc = "dead"
    /\ poisoned
    /\ player.current_track = None
    /\ Len(player.queue_history) >= 1

\* C23: after a load, one that fails included, the sink no longer plays
\* what it played before: it is empty, or it holds the newly loaded track
\* from its start.
C23_LoadStopsAudioFirst ==
    [][\A op \in LoadOps : \A fail \in FailsOf(op) :
        LET r == Call(op, player, fail) IN
        (/\ LoadTarget(op, player) # None
         /\ player' = r.p)
        => \/ player'.sink_source = None
           \/ /\ r.res = "Ok"
              /\ player'.sink_source = LoadTarget(op, player)
              /\ player'.sink_pos = 0]_vars

\* The poll ends: the background thread, inside its poll, ends it with the
\* outcome d.
PollEnds(d) ==
    /\ running[LoopThread].op = "poll"
    /\ running'[LoopThread] = NotRunning
    /\ last'.op = (IF d.op = "next" THEN "poll_next" ELSE d.op)
    /\ player' = d.r.p
    /\ loop_pc' = LoopAfter(d.r.res, "event")

\* The poll takes the track to be over.
EndOfTrack(p) == is_playing(p) /\ p.sink_pos # 0 /\ p.sink_pos = get_position(p)

Line(p) ==
    p.queue_history
    \o (IF p.current_track # None THEN <<p.current_track>> ELSE <<>>)
    \o p.queue

\* C26: a next() or a prev() that returns Ok leaves the concatenation
\* history ++ [current] ++ queue as it was; a next() that loads takes the
\* head of the queue and puts the current track at the tail of the history,
\* a prev() that loads takes the tail of the history and puts the current
\* track at the front of the queue.
C26_LinePreserved ==
    [][\A fail \in FailsOf("next") :
        /\ LET r == next(player, fail) IN
           (r.res = "Ok" /\ player' = r.p) =>
                /\ Line(player') = Line(player)
                /\ LoadTarget("next", player) # None =>
                    /\ player'.current_track = Head(player.queue)
                    /\ player'.queue = Tail(player.queue)
                    /\ player'.queue_history = Append(player.queue_history, player.current_track)
        /\ LET r == prev(player, fail) IN
           (r.res = "Ok" /\ player' = r.p) =>
                /\ Line(player') = Line(player)
                /\ LoadTarget("prev", player) # None =>
                    /\ player'.current_track = player.queue_history[Len(player.queue_history)]
                    /\ player'.queue = <<player.current_track>> \o player.queue
                    /\ player'.queue_history =
                           SubSeq(player.queue_history, 1, Len(player.queue_history) - 1)]_vars

\* After set_queue, play and one next(): the second track is the current
\* one, between the first in the history and the rest in the queue.
C26_Witness ==
    /\ script.step = 2
    /\ Len(script.tracks) = MaxQueue
    /\ Line(player) = script.tracks
    /\ Len(player.queue_history) = 1
    /\ player.current_track = script.tracks[2]
    /\ player.current_track # player.queue_history[1]

\* C27: on a player with no current track next() and prev() return Ok and
\* leave the whole player as it is, whatever the queue and the history
\* hold and whatever external call would fail: no load is started.
C27_NoCurrentNoOp ==
    player.current_track = None =>
        /\ \A fail \in FailsOf("next") : next(player, fail) = Ok(player)
        /\ \A fail \in FailsOf("prev") : prev(player, fail) = Ok(player)

\* A next() or prev() called right after set_queue: the queue is still
\* whole and nothing plays.
C27_Witness ==
    /\ player.current_track = None
    /\ Len(player.queue) = MaxQueue
    /\ player.queue_history = <<>>
    /\ script = NoScript
    /\ ~is_playing(player)
    /\ ~poisoned

\* C30: whenever is_playing() is true there is a current track.
C30_PlayingHasCurrent ==
    is_playing(player) => get_current_track(player) # None

\* C28: a call (a step that leaves the session's quality alone) whose
\* load succeeds returns Ok whatever the prefetch calls return, the player
\* is what the call leaves with no failure at all, and the prefetched track
\* is still the head of the queue.
C28_PrefetchBestEffort ==
    [][(last'.op = "load" /\ last'.loaded /\ audio_quality' = audio_quality) =>
        /\ last'.res = "Ok"
        /\ ~poisoned'
        /\ player' = Call(last'.by, player, "None").p
        /\ player'.current_track = last'.track
        /\ player'.queue # <<>> =>
            (last'.prefetched # None /\ Head(player'.queue) = last'.prefetched)
        /\ player'.queue = <<>> => (last'.prefetched = None /\ ~last'.prefetch_failed)]_vars

\* A load by play() that succeeded while a call of its prefetch failed: the
\* head of the queue is in place, without its metadata.
C28_Witness ==
    /\ last.op = "load"
    /\ last.by = "play"
    /\ last.res = "Ok"
    /\ last.prefetch_failed
    /\ player.current_track = last.track
    /\ Len(player.queue) >= 1
    /\ Head(player.queue) = last.prefetched
    /\ ~has_info(Head(player.queue))
    /\ is_playing(player)

\* C29: the track in the current-track slot has its attributes, its album
\* and its artist fetched, and a cached URL.
C29_CurrentTrackReady ==
    player.current_track # None =>
        /\ has_info(player.current_track)
        /\ url[player.current_track] # None

\* A track that came without metadata and without URL is the current one,
\* ready, beside a queue head that is not.
C29_Witness ==
    /\ last.op = "load"
    /\ last.loaded
    /\ player.current_track = last.track
    /\ has_info(player.current_track)
    /\ url[player.current_track] = ResolvedUrl(audio_quality)
    /\ url_audio_quality[player.current_track] = audio_quality
    /\ Len(player.queue) >= 1
    /\ url[Head(player.queue)] = None

\* C31: a play(), next() or prev() whose load fails loses no track: every
\* track is held by the player (history, current or queue) as many times as
\* before, and the track whose load failed is in the queue or the history.
C31_FailedLoadKeepsTracks ==
    [][\A op \in LoadOps : \A fail \in LoadFails :
        LET r == Call(op, player, fail) IN
        (/\ LoadTarget(op, player) # None
         /\ r.res = "Err"
         /\ player' = r.p)
        => /\ \A t \in Tracks : Count(Line(player'), t) >= Count(Line(player), t)
           /\ Count(player'.queue \o player'.queue_history, LoadTarget(op, player)) >= 1]_vars

\* No track twice in a sequence.
Distinct(seq) == \A i, j \in 1..Len(seq) : seq[i] = seq[j] => i = j

\* The step from player p to player q is a play(), next() or prev() whose
\* load fails.
FailedLoad(p, q) ==
    \E op \in LoadOps : \E fail \in LoadFails :
        /\ LoadTarget(op, p) # None
        /\ Call(op, p, fail).res = "Err"
        /\ q = Call(op, p, fail).p

\* C32: set_queue(tracks) leaves history ++ [current] ++ queue equal to
\* tracks, and every later step of play, pause, next, prev, shuffle, seek and
\* the poll in which no load fails keeps the multiset of history, current
\* and queue as it is, and pairwise distinct if it was: no track is lost,
\* duplicated, or in two of the three places.
C32_TracksPreserved ==
    [][/\ player' = set_queue(player, player'.queue) =>
            (Line(player') = player'.queue /\ player'.current_track = None
             /\ player'.queue_history = <<>>)
       /\ \/ player' = set_queue(player, player'.queue)
          \/ FailedLoad(player, player')
          \/ /\ SameBag(Line(player'), Line(player))
             /\ Len(Line(player')) = Len(Line(player))
             /\ Distinct(Line(player)) => Distinct(Line(player'))]_vars

\* After set_queue(collection), play(), next() and a shuffle that found the
\* first track in the history: the second track is still the current one,
\* the first is back in the queue.
C32_Witness ==
    /\ last.op = "shuffle_queue"
    /\ last.history = 1
    /\ last.current
    /\ player.current_track = Collection[2]
    /\ player.queue_history = <<>>
    /\ SameBag(Line(player), Collection)
    /\ Distinct(Line(player))

\* The display agrees with player p: its status is Playing exactly when
\* is_playing() is true, never Playing beside an empty current-track slot,
\* and its metadata is that of the current track when there is one.
DisplayAgrees(p) ==
    /\ p.ctl_playback = "Playing" <=> is_playing(p)
    /\ p.ctl_playback = "Playing" => get_current_track(p) # None
    /\ get_current_track(p) # None => p.ctl_metadata = get_current_track(p)

\* C33: after a set_queue, and after a play(), next() or prev() that returns
\* Ok, the display agrees with the player.
C33_DisplayAgreesAfterOp ==
    [][/\ player' = set_queue(player, player'.queue) => DisplayAgrees(player')
       /\ \A op \in LoadOps : \A fail \in FailsOf(op) :
            LET r == Call(op, player, fail) IN
            (r.res = "Ok" /\ player' = r.p) => DisplayAgrees(player')]_vars

\* C34: a poll invokes next() only when the sink has played its source to
\* the end (the source is gone from the sink).
C34_SkipOnlyAtEnd ==
    [][\A fail \in FailsOf("poll") :
        LET d == poll_position(player, fail) IN
        (PollEnds(d) /\ d.op = "next") => player.sink_source = None]_vars

\* C35: the poll that finds the last track of the queue over (it invokes
\* next() on an empty queue, and next() returns Ok) leaves is_playing()
\* false; and a poll on a player that is not playing invokes next() no more
\* and leaves is_playing() false.
C35_QueueEndStops ==
    [][\A fail \in FailsOf("poll") :
        LET d == poll_position(player, fail) IN
        /\ (/\ PollEnds(d)
            /\ d.op = "next"
            /\ player.queue = <<>>
            /\ player.sink_source = None
            /\ d.r.res = "Ok")
                => ~is_playing(player')
        /\ (PollEnds(d) /\ ~is_playing(player))
                => (d.op # "next" /\ ~is_playing(player'))]_vars

\* C36 as stated: the commands are applied to the player in the order in
\* which they were issued.
C36_AppliedInIssueOrder ==
    \A k, l \in 1..Len(applied) : k < l => applied[k] < applied[l]

\* C36 amended: every command is applied at most once, after it was issued,
\* by one method call on the locked player; a command that runs on the UI
\* thread (toggle_play_pause) is applied when it is issued, so these are
\* applied in issue order among themselves; the commands handed to tasks
\* are applied in the order in which the tasks get the lock.
C36_AppliedOnceEach ==
    [][/\ Distinct(applied')
       /\ \A k \in 1..Len(applied') : applied'[k] \in 1..Len(issued')
       /\ \A i \in 1..Len(issued') :
            issued'[i] = "toggle" => \E k \in 1..Len(applied') : applied'[k] = i
       /\ \A k, l \in 1..Len(applied') :
            (k < l /\ issued'[applied'[k]] = "toggle" /\ issued'[applied'[l]] = "toggle")
                => applied'[k] < applied'[l]
       /\ applied' # applied =>
            \E i \in 1..Len(issued') :
                /\ applied' = Append(applied, i)
                /\ i \in Spawned(issued, applied) \/ (i = Len(issued) + 1 /\ issued'[i] = "toggle")
                /\ \E fail \in Fails : player' = Apply(issued'[i], player, fail).p]_vars

\* play-all, previous_track, next_track issued in this order; the task of
\* next_track got the lock before that of previous_track: the first track is
\* the current one again (in issue order it would be the second).
C36_Witness ==
    /\ issued = <<"play", "prev", "next">>
    /\ applied = <<1, 3, 2>>
    /\ ~poisoned
    /\ player.current_track = Collection[1]
    /\ player.queue = <<Collection[2]>> \o SubSeq(Collection, 3, Len(Collection))
    /\ player.queue_history = <<>>

\* C37: a spawned task whose play(), next() or prev() ends with a load
\* failure leaves the player lock usable (not poisoned), and the background
\* thread never ends at its lock().
C37_TaskFailureSparesLoop ==
    [][/\ \A th \in TaskThreads : \A fail \in LoadFails :
            (/\ running[th].op \in LoadOps
             /\ running'[th] = NotRunning
             /\ LoadTarget(running[th].op, player) # None
             /\ Call(running[th].op, player, fail).res = "Err"
             /\ player' = Call(running[th].op, player, fail).p)
            => ~poisoned'
       /\ last'.op # "lock_panic"]_vars

\* The order of the mutexes.
LockRank(l) ==
    CASE l.kind = "player" -> 1
      [] l.kind = "collection_tracks" -> 2
      [] l.kind = "url" -> 3
      [] l.kind = "url_audio_quality" -> 4
      [] l.kind = "gil" -> 5

\* The threads that wait for a mutex another thread (or they themselves) hold.
Blocked(th) ==
    /\ Wants(locker[th]) # NoMutex
    /\ HolderOf(Wants(locker[th])) # None

\* C38: the program never deadlocks on its mutexes: there is never a set of
\* threads each waiting for a mutex held inside the set, and every thread takes
\* the mutexes in one order (player, collection, url, url_audio_quality, GIL).
C38_NoDeadlock ==
    /\ \A S \in SUBSET PlayerThreads :
          S # {} => \E th \in S :
              ~(Blocked(th) /\ HolderOf(Wants(locker[th])) \in S)
    /\ \A th \in PlayerThreads :
          Wants(locker[th]) # NoMutex =>
              \A h \in HeldBy(locker[th]) : LockRank(h) < LockRank(Wants(locker[th]))

\* The interface thread waits for the collection mutex with the player's mutex
\* held, a task holds the collection mutex, and another task waits for the player.
C38_Witness ==
    /\ Wants(locker[UiThread]) = CollectionMutex
    /\ PlayerMutex \in HeldBy(locker[UiThread])
    /\ \E th \in TaskThreads : CollectionMutex \in HeldBy(locker[th])
    /\ \E th \in TaskThreads : Wants(locker[th]) = PlayerMutex

\* C39: the quality stored with the cached URL of a track is the quality the
\* URL was fetched under, also when the audio quality of the session is set
\* while a get_url call is running.
C39_TagIsFetchQuality ==
    \A t \in Tracks :
        url[t] # None => url[t] = ResolvedUrl(url_audio_quality[t])

\* C40: metadata is fetched at most once per track id: the player never fetches
\* a slot of a track that the table's track of the same id has resolved already.
C40_PlayerReusesTableInfo ==
    [][\A t \in Tracks : \A slot \in Slots :
          (cell[t][slot] = None /\ cell'[t][slot] # None) => ui_cell[t][slot] = None]_vars

====
